---- MODULE Spec2Model ----
(***************************************************************************)
(* Datapoint <-> cluster translation of the Tuya thermostatic radiator     *)
(* valves in zhaquirks/tuya/ts0601_trv.py (Saswell and Zonnsmart           *)
(* families).                                                              *)
(*                                                                         *)
(* A device is a set of synthetic clusters, each owning an attribute cache *)
(* (a Python dict, here a function whose DOMAIN is the set of cached       *)
(* attributes).  An inbound datapoint report runs the manufacturer         *)
(* cluster's _update_attribute to completion; an attribute write runs the  *)
(* cluster's write_attributes to completion.                               *)
(***************************************************************************)
EXTENDS Integers, Sequences, FiniteSets, TLC

VARIABLES
    attr_cache,   \* device -> cluster -> (attribute -> value): every _attr_cache
    updates,      \* <<cluster, attribute, value>> attribute updates of the last operation
    raised,       \* exceptions raised inside bus listeners during the last operation
    outbound,     \* set_data frames issued by the last operation
    seq,          \* device -> last transaction sequence number handed out
    result,       \* what the last write returned to its caller
    lastOp,       \* the last operation and its inputs
    transport,    \* how the manufacturer cluster's write of the last operation completed
    nreports,     \* inbound reports delivered so far (counted where a run is bounded)
    SaswellManufClusterSelf,   \* the module global: device ieee -> manufacturer cluster
    ZonnsmartManuClusterSelf,  \* the module global: one manufacturer cluster, or None
    via           \* the device whose manufacturer cluster issued the outbound frames

vars == <<attr_cache, updates, raised, outbound, seq, result, lastOp, transport, nreports,
          SaswellManufClusterSelf, ZonnsmartManuClusterSelf, via>>

\* the module globals are written by the constructors only
globals == <<SaswellManufClusterSelf, ZonnsmartManuClusterSelf>>

----------------------------------------------------------------------------
(* Bounds of the model *)

\* raw room / target temperature reports are drawn from MinTemp..MaxTemp (decidegrees / 10)
MinTemp == 24
MaxTemp == 26
\* raw temperature-correction reports are drawn from -MaxCal..MaxCal
MaxCal == 1
\* at most MaxSeq outbound frames are issued per device
MaxSeq == 2
\* seeded thermostat caches hold temperatures SeedLo..SeedHi (centidegrees)
SeedLo == 246
SeedHi == 254
\* runs that deliver every datapoint of every device stop after MaxReports reports
MaxReports == 2

----------------------------------------------------------------------------
(* Datapoint identifiers *)

SASWELL_CHILD_LOCK_ATTR == 296
SASWELL_ANTI_FREEZE_ATTR == 266
SASWELL_WINDOW_DETECT_ATTR == 264
SASWELL_LIMESCALE_PROTECT_ATTR == 386
SASWELL_TEMP_CORRECTION_ATTR == 539
SASWELL_ROOM_TEMP_ATTR == 614
SASWELL_AWAY_MODE_ATTR == 362
SASWELL_SCHEDULE_MODE_ATTR == 364
SASWELL_ONOFF_ATTR == 357
SASWELL_TARGET_TEMP_ATTR == 615
SASWELL_BATTERY_ALARM_ATTR == 1385

\* cluster id of the Tuya manufacturer cluster (0xEF00) and the set_data command id
TUYA_CLUSTER_ID == 61184
TUYA_SET_DATA == 0

----------------------------------------------------------------------------
(* Python values *)

\* None / a present value, for dict.get() and for functions that may return None
None == <<>>
Some(x) == <<x>>

\* the empty dict
EmptyDict == [x \in {} |-> 0]

\* d[k] = v
Put(d, k, v) == [x \in (DOMAIN d) \cup {k} |-> IF x = k THEN v ELSE d[x]]

\* d.get(k)
Get(d, k) == IF k \in DOMAIN d THEN Some(d[k]) ELSE None

\* a one-entry dict {k: v}
Dict1(k, v) == [x \in {k} |-> v]

\* round(n / d) for d > 0: Python rounds to nearest, ties to the even neighbour
PyRound(n, d) ==
    LET q == n \div d
        r == n % d
    IN  IF 2 * r < d THEN q
        ELSE IF 2 * r > d THEN q + 1
        ELSE IF q % 2 = 0 THEN q ELSE q + 1

----------------------------------------------------------------------------
(* Handler state: the caches of one device together with what the running  *)
(* operation has emitted so far.                                           *)

HandlerState(cache) == [cache |-> cache, upd |-> <<>>, exc |-> <<>>]

\* Cluster._update_attribute: last value wins, listeners are notified
UpdateAttribute(s, cluster, attr, value) ==
    [s EXCEPT !.cache[cluster] = Put(@, attr, value),
              !.upd = Append(@, <<cluster, attr, value>>)]

\* an exception raised inside a bus listener: listener_event logs it and goes on
ListenerRaises(s, what) == [s EXCEPT !.exc = Append(@, what)]

----------------------------------------------------------------------------
(* TuyaThermostatCluster: the listeners every thermostat cluster inherits  *)

temperature_change(s, attr, value) == UpdateAttribute(s, "thermostat", attr, value)

state_change(s, value) ==
    LET mode == IF value = 0 THEN "Off" ELSE "Heat"
        state == IF value = 0 THEN "Idle" ELSE "Heat_State_On"
    IN  UpdateAttribute(UpdateAttribute(s, "thermostat", "running_mode", mode),
                        "thermostat", "running_state", state)

\* TuyaUserInterfaceCluster.child_lock_change
ui_child_lock_change(s, value) ==
    UpdateAttribute(s, "thermostat_ui", "keypad_lockout",
                    IF value = 0 THEN "No_lockout" ELSE "Level_1_lockout")

----------------------------------------------------------------------------
(* SaswellThermostat *)

\* __init__ seeding the two limits the wrong way round
SaswellThermostat_init_swapped(s) ==
    temperature_change(temperature_change(s, "min_heat_setpoint_limit", 3000),
                       "max_heat_setpoint_limit", 500)

SaswellThermostat_init(s) ==
    temperature_change(temperature_change(s, "min_heat_setpoint_limit", 500),
                       "max_heat_setpoint_limit", 3000)

\* on_off_event taking every non-zero value for "on"
on_off_event_truthy(s, value) ==
    IF value # 0
    THEN UpdateAttribute(
             UpdateAttribute(
                 UpdateAttribute(s, "thermostat", "system_mode", "Heat"),
                 "thermostat", "running_mode", "Heat"),
             "thermostat", "running_state", "Heat_State_On")
    ELSE UpdateAttribute(
             UpdateAttribute(
                 UpdateAttribute(s, "thermostat", "system_mode", "Off"),
                 "thermostat", "running_mode", "Off"),
             "thermostat", "running_state", "Idle")

on_off_event(s, value) ==
    IF value = 1
    THEN UpdateAttribute(
             UpdateAttribute(
                 UpdateAttribute(s, "thermostat", "system_mode", "Heat"),
                 "thermostat", "running_mode", "Heat"),
             "thermostat", "running_state", "Heat_State_On")
    ELSE UpdateAttribute(
             UpdateAttribute(
                 UpdateAttribute(s, "thermostat", "system_mode", "Off"),
                 "thermostat", "running_mode", "Off"),
             "thermostat", "running_state", "Idle")

\* the comparator with the offset applied to the current temperature
hass_state_offset_on_current(temp_current, temp_set) ==
    IF temp_current + 2 >= temp_set THEN 0 ELSE 1

\* the comparator with the offset removed
hass_state_no_offset(temp_current, temp_set) ==
    IF temp_current >= temp_set THEN 0 ELSE 1

\* state = 0 if (int(temp_current) >= int(temp_set + 2)) else 1
hass_state(temp_current, temp_set) ==
    IF temp_current >= temp_set + 2 THEN 0 ELSE 1

\* the calculator without its heat-mode guard
hass_climate_state_change_no_guard(s, attrid, value) ==
    LET cache == s.cache["thermostat"]
        temp_current == IF attrid = SASWELL_ROOM_TEMP_ATTR
                        THEN Some(value * 10)
                        ELSE Get(cache, "local_temperature")
        temp_set == IF attrid = SASWELL_ROOM_TEMP_ATTR
                    THEN Get(cache, "occupied_heating_setpoint")
                    ELSE Some(value * 10)
    IN  IF temp_current = None \/ temp_set = None
        THEN ListenerRaises(s, "TypeError")
        ELSE state_change(s, hass_state(temp_current[1], temp_set[1]))

\* the calculator treating a temperature it has never seen as 0
hass_climate_state_change_default_zero(s, attrid, value) ==
    LET cache == s.cache["thermostat"]
        seen(a) == IF a \in DOMAIN cache THEN cache[a] ELSE 0
        temp_current == IF attrid = SASWELL_ROOM_TEMP_ATTR
                        THEN value * 10 ELSE seen("local_temperature")
        temp_set == IF attrid = SASWELL_ROOM_TEMP_ATTR
                    THEN seen("occupied_heating_setpoint") ELSE value * 10
    IN  IF Get(cache, "system_mode") # Some("Heat")
        THEN state_change(s, 0)
        ELSE state_change(s, hass_state(temp_current, temp_set))

\* the running state published at once but cached only later
hass_climate_state_change_deferred(s, attrid, value) ==
    LET r ==
            LET cache == s.cache["thermostat"]
                temp_current == IF attrid = SASWELL_ROOM_TEMP_ATTR
                                THEN Some(value * 10)
                                ELSE Get(cache, "local_temperature")
                temp_set == IF attrid = SASWELL_ROOM_TEMP_ATTR
                            THEN Get(cache, "occupied_heating_setpoint")
                            ELSE Some(value * 10)
            IN  IF Get(cache, "system_mode") # Some("Heat")
                THEN state_change(s, 0)
                \* None + 2 and int(None) raise TypeError before state_change is published
                ELSE IF temp_current = None \/ temp_set = None
                THEN ListenerRaises(s, "TypeError")
                ELSE state_change(s, hass_state(temp_current[1], temp_set[1]))
    IN  [r EXCEPT !.cache = s.cache]

\* the calculator publishing Idle when a temperature has never been observed
hass_climate_state_change_idle_on_missing(s, attrid, value) ==
    LET cache == s.cache["thermostat"]
        temp_current == IF attrid = SASWELL_ROOM_TEMP_ATTR
                        THEN Some(value * 10)
                        ELSE Get(cache, "local_temperature")
        temp_set == IF attrid = SASWELL_ROOM_TEMP_ATTR
                    THEN Get(cache, "occupied_heating_setpoint")
                    ELSE Some(value * 10)
    IN  IF Get(cache, "system_mode") # Some("Heat")
        THEN state_change(s, 0)
        ELSE IF temp_current = None \/ temp_set = None
        THEN state_change(s, 0)
        ELSE state_change(s, hass_state(temp_current[1], temp_set[1]))

hass_climate_state_change(s, attrid, value) ==
    LET cache == s.cache["thermostat"]
        temp_current == IF attrid = SASWELL_ROOM_TEMP_ATTR
                        THEN Some(value * 10)
                        ELSE Get(cache, "local_temperature")
        temp_set == IF attrid = SASWELL_ROOM_TEMP_ATTR
                    THEN Get(cache, "occupied_heating_setpoint")
                    ELSE Some(value * 10)
    IN  IF Get(cache, "system_mode") # Some("Heat")
        THEN state_change(s, 0)
        \* None + 2 and int(None) raise TypeError before state_change is published
        ELSE IF temp_current = None \/ temp_set = None
        THEN ListenerRaises(s, "TypeError")
        ELSE state_change(s, hass_state(temp_current[1], temp_set[1]))

----------------------------------------------------------------------------
(* Saswell helper clusters *)

SaswellHelpers ==
    {"window_detection", "child_lock", "anti_freeze", "limescale_protection",
     "schedule_mode", "away_mode"}

\* a <name>_change that a second helper cluster answers as well
helper_change_two_listeners(s, helper, value) ==
    UpdateAttribute(UpdateAttribute(s, helper, "on_off", value),
                    IF helper = "child_lock" THEN "away_mode" ELSE "child_lock",
                    "on_off", value)

\* a listener that flips the cached on_off on every event it gets
helper_change_toggle(s, helper, value) ==
    UpdateAttribute(s, helper, "on_off",
                    IF "on_off" \in DOMAIN s.cache[helper]
                    THEN 1 - s.cache[helper]["on_off"] ELSE value)

\* SaswellCustomOnOff subclasses: <name>_change sets on_off on their own cluster
helper_change(s, helper, value) == UpdateAttribute(s, helper, "on_off", value)

\* set_value caching ten times the reported correction
SaswellTemperatureOffset_set_value_tenfold(s, value) ==
    UpdateAttribute(s, "analog_output", "present_value", value * 10)

\* SaswellTemperatureOffset.set_value
SaswellTemperatureOffset_set_value(s, value) ==
    UpdateAttribute(s, "analog_output", "present_value", value)

SaswellTemperatureOffset_init(s) ==
    LET u(t, a, v) == UpdateAttribute(t, "analog_output", a, v)
    IN  u(u(u(u(u(u(s, "description", "Temperature Offset"),
                    "max_present_value", 6),
                  "min_present_value", -6),
                "resolution", 1),
              "application_type", 13 * 65536),
            "engineering_units", 62)

\* SaswellPowerConfigurationCluster.battery_alarm_event
battery_alarm_event(s, value) ==
    UpdateAttribute(s, "power", "battery_percentage_remaining",
                    IF value = 1 THEN 0 ELSE 200)

----------------------------------------------------------------------------
(* SaswellManufCluster *)

\* DIRECT_MAPPED_ATTRS: datapoint -> thermostat attribute, every transform is x10
SaswellDirectMapped ==
    [a \in {SASWELL_ROOM_TEMP_ATTR, SASWELL_TARGET_TEMP_ATTR,
            SASWELL_TEMP_CORRECTION_ATTR} |->
        IF a = SASWELL_ROOM_TEMP_ATTR THEN "local_temperature"
        ELSE IF a = SASWELL_TARGET_TEMP_ATTR THEN "occupied_heating_setpoint"
        ELSE "local_temperature_calibration"]

\* the dispatch without the child lock event on the ui bus
SaswellDispatch_no_ui(s, attrid, value) ==
    IF attrid = SASWELL_ONOFF_ATTR THEN on_off_event(s, value)
    ELSE IF attrid = SASWELL_SCHEDULE_MODE_ATTR
    THEN helper_change(s, "schedule_mode", value)
    ELSE IF attrid = SASWELL_AWAY_MODE_ATTR
    THEN helper_change(s, "away_mode", value)
    ELSE IF attrid = SASWELL_CHILD_LOCK_ATTR
    THEN helper_change(s, "child_lock", value)
    ELSE IF attrid = SASWELL_WINDOW_DETECT_ATTR
    THEN helper_change(s, "window_detection", value)
    ELSE IF attrid = SASWELL_ANTI_FREEZE_ATTR
    THEN helper_change(s, "anti_freeze", value)
    ELSE IF attrid = SASWELL_LIMESCALE_PROTECT_ATTR
    THEN helper_change(s, "limescale_protection", value)
    ELSE IF attrid = SASWELL_BATTERY_ALARM_ATTR
    THEN battery_alarm_event(s, value)
    ELSE IF attrid = SASWELL_TEMP_CORRECTION_ATTR
    THEN SaswellTemperatureOffset_set_value(s, value)
    ELSE IF attrid \in {SASWELL_ROOM_TEMP_ATTR, SASWELL_TARGET_TEMP_ATTR}
    THEN hass_climate_state_change(s, attrid, value)
    ELSE s

\* the dispatch that follows the direct mapping
SaswellDispatch(s, attrid, value) ==
    IF attrid = SASWELL_ONOFF_ATTR THEN on_off_event(s, value)
    ELSE IF attrid = SASWELL_SCHEDULE_MODE_ATTR
    THEN helper_change(s, "schedule_mode", value)
    ELSE IF attrid = SASWELL_AWAY_MODE_ATTR
    THEN helper_change(s, "away_mode", value)
    ELSE IF attrid = SASWELL_CHILD_LOCK_ATTR
    THEN helper_change(ui_child_lock_change(s, value), "child_lock", value)
    ELSE IF attrid = SASWELL_WINDOW_DETECT_ATTR
    THEN helper_change(s, "window_detection", value)
    ELSE IF attrid = SASWELL_ANTI_FREEZE_ATTR
    THEN helper_change(s, "anti_freeze", value)
    ELSE IF attrid = SASWELL_LIMESCALE_PROTECT_ATTR
    THEN helper_change(s, "limescale_protection", value)
    ELSE IF attrid = SASWELL_BATTERY_ALARM_ATTR
    THEN battery_alarm_event(s, value)
    ELSE IF attrid = SASWELL_TEMP_CORRECTION_ATTR
    THEN SaswellTemperatureOffset_set_value(s, value)
    ELSE IF attrid \in {SASWELL_ROOM_TEMP_ATTR, SASWELL_TARGET_TEMP_ATTR}
    THEN hass_climate_state_change(s, attrid, value)
    ELSE s

\* the dispatch with the derived state computed before the direct mapping
SaswellManufCluster_update_attribute_derived_first(s, attrid, value) ==
    LET s1 == UpdateAttribute(s, "tuya_manufacturer", attrid, value)
        s2 == SaswellDispatch(s1, attrid, value)
    IN  IF attrid \in DOMAIN SaswellDirectMapped
        THEN temperature_change(s2, SaswellDirectMapped[attrid], value * 10)
        ELSE s2

\* the direct mapping with the transform value * 10 left out
SaswellManufCluster_update_attribute_unscaled(s, attrid, value) ==
    LET s1 == UpdateAttribute(s, "tuya_manufacturer", attrid, value)
        s2 == IF attrid \in DOMAIN SaswellDirectMapped
              THEN temperature_change(s1, SaswellDirectMapped[attrid], value)
              ELSE s1
    IN  SaswellDispatch(s2, attrid, value)

SaswellManufCluster_update_attribute(s, attrid, value) ==
    LET s1 == UpdateAttribute(s, "tuya_manufacturer", attrid, value)
        s2 == IF attrid \in DOMAIN SaswellDirectMapped
              THEN temperature_change(s1, SaswellDirectMapped[attrid], value * 10)
              ELSE s1
    IN  SaswellDispatch(s2, attrid, value)

----------------------------------------------------------------------------
(* Zonnsmart datapoint identifiers and limits *)

ZONNSMART_MODE_ATTR == 1026
ZONNSMART_WINDOW_DETECT_ATTR == 264
ZONNSMART_FROST_PROTECT_ATTR == 266
ZONNSMART_TARGET_TEMP_ATTR == 528
ZONNSMART_TEMPERATURE_ATTR == 536
ZONNSMART_TEMPERATURE_CALIBRATION_ATTR == 539
ZONNSMART_HOLIDAY_TEMP_ATTR == 544
ZONNSMART_BATTERY_ATTR == 547
ZONNSMART_CHILD_LOCK_ATTR == 296
ZONNSMART_FAULT_DETECTION_ATTR == 1325
ZONNSMART_BOOST_TIME_ATTR == 613
ZONNSMART_OPENED_WINDOW_TEMP == 614
ZONNSMART_HEATING_STOPPING_ATTR == 363
ZONNSMART_ONLINE_MODE_ENUM_ATTR == 1139
ZONNSMART_ONLINE_MODE_BOOL_ATTR == 371
ZONNSMART_WEEK_FORMAT_ATTR == 1055
ZONNSMART_MAX_TEMPERATURE_VAL == 3000
ZONNSMART_MIN_TEMPERATURE_VAL == 500

\* the float n / 10
Tenths(n) == <<"tenths", n>>

----------------------------------------------------------------------------
(* ZONNSMARTThermostat *)

ZONNSMARTThermostat_init(s) ==
    temperature_change(
        temperature_change(s, "min_heat_setpoint_limit", ZONNSMART_MIN_TEMPERATURE_VAL),
        "max_heat_setpoint_limit", ZONNSMART_MAX_TEMPERATURE_VAL)

\* mode_change taking a frost protection report of 0 back to the Manual preset
mode_change_frost_off_resets(s, attrid, value) ==
    LET prog_mode ==
            IF attrid # ZONNSMART_MODE_ATTR THEN None
            ELSE IF value \in {0, 3} THEN Some("Schedule_programming_mode")
            ELSE IF value \in {1, 2} THEN Some("Simple")
            ELSE None
        operation_preset ==
            IF attrid = ZONNSMART_MODE_ATTR
            THEN IF value = 0 THEN Some("Schedule")
                 ELSE IF value = 1 THEN Some("Manual")
                 ELSE IF value = 2 THEN Some("Holiday")
                 ELSE IF value = 3 THEN Some("HolidayTemp")
                 ELSE None
            ELSE IF attrid = ZONNSMART_FROST_PROTECT_ATTR
            THEN IF value = 1 THEN Some("FrostProtect") ELSE Some("Manual")
            ELSE None
        s1 == IF prog_mode # None
              THEN UpdateAttribute(s, "thermostat", "programing_oper_mode", prog_mode[1])
              ELSE s
    IN  IF operation_preset # None
        THEN UpdateAttribute(s1, "thermostat", "operation_preset", operation_preset[1])
        ELSE s1

mode_change(s, attrid, value) ==
    LET prog_mode ==
            IF attrid # ZONNSMART_MODE_ATTR THEN None
            ELSE IF value \in {0, 3} THEN Some("Schedule_programming_mode")
            ELSE IF value \in {1, 2} THEN Some("Simple")
            ELSE None
        operation_preset ==
            IF attrid = ZONNSMART_MODE_ATTR
            THEN IF value = 0 THEN Some("Schedule")
                 ELSE IF value = 1 THEN Some("Manual")
                 ELSE IF value = 2 THEN Some("Holiday")
                 ELSE IF value = 3 THEN Some("HolidayTemp")
                 ELSE None
            ELSE IF attrid = ZONNSMART_FROST_PROTECT_ATTR /\ value = 1
            THEN Some("FrostProtect")
            ELSE None
        s1 == IF prog_mode # None
              THEN UpdateAttribute(s, "thermostat", "programing_oper_mode", prog_mode[1])
              ELSE s
    IN  IF operation_preset # None
        THEN UpdateAttribute(s1, "thermostat", "operation_preset", operation_preset[1])
        ELSE s1

\* value is the boolean (heating_stop == 0)
system_mode_change(s, value) ==
    UpdateAttribute(s, "thermostat", "system_mode", IF value THEN "Heat" ELSE "Off")

\* the comparator carrying the Saswell offset of 2
zonnsmart_state_with_offset(temp_current, temp_set) ==
    IF temp_current >= temp_set + 2 THEN 0 ELSE 1

\* state = 0 if (int(temp_current) >= int(temp_set)) else 1
zonnsmart_state(temp_current, temp_set) ==
    IF temp_current >= temp_set THEN 0 ELSE 1

state_temp_change(s, attrid, value) ==
    LET cache == s.cache["thermostat"]
        temp_current == IF attrid = ZONNSMART_TEMPERATURE_ATTR
                        THEN Some(value * 10)
                        ELSE Get(cache, "local_temperature")
        temp_set == IF attrid = ZONNSMART_TEMPERATURE_ATTR
                    THEN Get(cache, "occupied_heating_setpoint")
                    ELSE Some(value * 10)
    IN  IF attrid \notin {ZONNSMART_TEMPERATURE_ATTR, ZONNSMART_TARGET_TEMP_ATTR}
        THEN s
        \* int(None) raises TypeError before state_change is published
        ELSE IF temp_current = None \/ temp_set = None
        THEN ListenerRaises(s, "TypeError")
        ELSE state_change(s, zonnsmart_state(temp_current[1], temp_set[1]))

----------------------------------------------------------------------------
(* Zonnsmart helper clusters *)

ZONNSMARTWindowDetection_init(s) ==
    UpdateAttribute(s, "window_detection", "description", "Open Window Detected")

ZONNSMARTWindowDetection_set_value(s, value) ==
    UpdateAttribute(s, "window_detection", "present_value", value)

ZonnsmartHelpers == {"child_lock", "boost", "online_mode"}

\* ZONNSMARTHelperOnOff.set_change on the boost, child lock and online mode clusters
set_change(s, helper, value) == UpdateAttribute(s, helper, "on_off", value)

ZONNSMARTTemperatureOffset_init(s) ==
    LET u(t, a, v) == UpdateAttribute(t, "analog_output", a, v)
    IN  u(u(u(u(u(u(s, "description", "Temperature Offset"),
                    "max_present_value", 5),
                  "min_present_value", -5),
                "resolution", Tenths(1)),
              "application_type", 9),
            "engineering_units", 62)

\* set_value receives value / 10
ZONNSMARTTemperatureOffset_set_value(s, tenths) ==
    UpdateAttribute(s, "analog_output", "present_value", Tenths(tenths))

ZONNSMARTWindowOpenedTemp_init(s) ==
    LET u(t, a, v) == UpdateAttribute(t, "window_temperature", a, v)
    IN  u(u(u(u(u(u(s, "description", "Opened Window Temperature"),
                    "max_present_value", Tenths(ZONNSMART_MAX_TEMPERATURE_VAL \div 10)),
                  "min_present_value", Tenths(ZONNSMART_MIN_TEMPERATURE_VAL \div 10)),
                "resolution", Tenths(5)),
              "application_type", 0),
            "engineering_units", 62)

\* present_value = value / 10
ZONNSMARTWindowOpenedTemp_set_value(s, value) ==
    UpdateAttribute(s, "window_temperature", "present_value", Tenths(value))

\* TuyaPowerConfigurationCluster2AA.battery_change
battery_change(s, value) ==
    UpdateAttribute(s, "power", "battery_percentage_remaining", value * 2)

----------------------------------------------------------------------------
(* ZONNSMARTManufCluster *)

\* DIRECT_MAPPED_ATTRS: datapoint -> thermostat attribute
ZonnsmartDirectMapped ==
    [a \in {ZONNSMART_TEMPERATURE_ATTR, ZONNSMART_TEMPERATURE_CALIBRATION_ATTR,
            ZONNSMART_TARGET_TEMP_ATTR, ZONNSMART_HOLIDAY_TEMP_ATTR,
            ZONNSMART_FAULT_DETECTION_ATTR} |->
        IF a = ZONNSMART_TEMPERATURE_ATTR THEN "local_temperature"
        ELSE IF a = ZONNSMART_TEMPERATURE_CALIBRATION_ATTR
        THEN "local_temperature_calibration"
        ELSE IF a = ZONNSMART_TARGET_TEMP_ATTR THEN "occupied_heating_setpoint"
        ELSE IF a = ZONNSMART_HOLIDAY_TEMP_ATTR THEN "unoccupied_heating_setpoint"
        ELSE "alarm_mask"]

\* the forward transform of each direct mapping
ZonnsmartDirectValue(attrid, value) ==
    IF attrid = ZONNSMART_FAULT_DETECTION_ATTR
    THEN (IF value # 0 THEN 2 ELSE 0)
    ELSE value * 10

\* the first if / elif chain of _update_attribute
ZonnsmartDispatch(s, attrid, value) ==
    IF attrid \in DOMAIN ZonnsmartDirectMapped
    THEN temperature_change(s, ZonnsmartDirectMapped[attrid],
                            ZonnsmartDirectValue(attrid, value))
    ELSE IF attrid = ZONNSMART_WINDOW_DETECT_ATTR
    THEN ZONNSMARTWindowDetection_set_value(s, value)
    ELSE IF attrid = ZONNSMART_OPENED_WINDOW_TEMP
    THEN ZONNSMARTWindowOpenedTemp_set_value(s, value)
    ELSE IF attrid \in {ZONNSMART_MODE_ATTR, ZONNSMART_FROST_PROTECT_ATTR}
    THEN mode_change(s, attrid, value)
    ELSE IF attrid = ZONNSMART_HEATING_STOPPING_ATTR
    THEN system_mode_change(s, value = 0)
    ELSE IF attrid = ZONNSMART_CHILD_LOCK_ATTR
    THEN set_change(ui_child_lock_change(s, value), "child_lock", value)
    ELSE IF attrid = ZONNSMART_BATTERY_ATTR
    THEN battery_change(s, value)
    ELSE IF attrid = ZONNSMART_ONLINE_MODE_ENUM_ATTR
    THEN set_change(s, "online_mode", value)
    ELSE IF attrid = ZONNSMART_BOOST_TIME_ATTR
    THEN set_change(s, "boost", IF value > 0 THEN 1 ELSE 0)
    ELSE s

ZONNSMARTManufCluster_update_attribute(s, attrid, value) ==
    LET s1 == ZonnsmartDispatch(
                  UpdateAttribute(s, "tuya_manufacturer", attrid, value), attrid, value)
    IN  IF attrid = ZONNSMART_TEMPERATURE_CALIBRATION_ATTR
        THEN ZONNSMARTTemperatureOffset_set_value(s1, value)
        ELSE IF attrid \in {ZONNSMART_TEMPERATURE_ATTR, ZONNSMART_TARGET_TEMP_ATTR}
        THEN state_temp_change(s1, attrid, value)
        ELSE s1

----------------------------------------------------------------------------
(* Reverse mapping of the Saswell clusters *)

\* DIRECT_MAPPING_ATTRS with the transform round(value / 10) replaced by value // 10
SaswellThermostat_map_attribute_floor(attribute, value) ==
    IF attribute = "local_temperature_calibration"
    THEN Some(Dict1(SASWELL_TEMP_CORRECTION_ATTR, value \div 10))
    ELSE IF attribute = "occupied_heating_setpoint"
    THEN Some(Dict1(SASWELL_TARGET_TEMP_ATTR, value \div 10))
    ELSE IF attribute = "system_mode" /\ value = "Off"
    THEN Some(Dict1(SASWELL_ONOFF_ATTR, 0))
    ELSE IF attribute = "system_mode" /\ value = "Heat"
    THEN Some(Dict1(SASWELL_ONOFF_ATTR, 1))
    ELSE None

\* DIRECT_MAPPING_ATTRS with the setpoint passed on unscaled
SaswellThermostat_map_attribute_unscaled(attribute, value) ==
    IF attribute = "local_temperature_calibration"
    THEN Some(Dict1(SASWELL_TEMP_CORRECTION_ATTR, PyRound(value, 10)))
    ELSE IF attribute = "occupied_heating_setpoint"
    THEN Some(Dict1(SASWELL_TARGET_TEMP_ATTR, value))
    ELSE IF attribute = "system_mode" /\ value = "Off"
    THEN Some(Dict1(SASWELL_ONOFF_ATTR, 0))
    ELSE IF attribute = "system_mode" /\ value = "Heat"
    THEN Some(Dict1(SASWELL_ONOFF_ATTR, 1))
    ELSE None

\* SaswellThermostat.map_attribute; falling off the end returns None
SaswellThermostat_map_attribute(attribute, value) ==
    IF attribute = "local_temperature_calibration"
    THEN Some(Dict1(SASWELL_TEMP_CORRECTION_ATTR, PyRound(value, 10)))
    ELSE IF attribute = "occupied_heating_setpoint"
    THEN Some(Dict1(SASWELL_TARGET_TEMP_ATTR, PyRound(value, 10)))
    ELSE IF attribute = "system_mode" /\ value = "Off"
    THEN Some(Dict1(SASWELL_ONOFF_ATTR, 0))
    ELSE IF attribute = "system_mode" /\ value = "Heat"
    THEN Some(Dict1(SASWELL_ONOFF_ATTR, 1))
    ELSE None

\* the datapoint each helper's map_attribute names
SaswellHelperDP ==
    [h \in SaswellHelpers |->
        IF h = "window_detection" THEN SASWELL_WINDOW_DETECT_ATTR
        ELSE IF h = "child_lock" THEN SASWELL_CHILD_LOCK_ATTR
        ELSE IF h = "anti_freeze" THEN SASWELL_ANTI_FREEZE_ATTR
        ELSE IF h = "limescale_protection" THEN SASWELL_LIMESCALE_PROTECT_ATTR
        ELSE IF h = "schedule_mode" THEN SASWELL_SCHEDULE_MODE_ATTR
        ELSE SASWELL_AWAY_MODE_ATTR]

\* map_attribute of the six SaswellCustomOnOff subclasses
SaswellHelper_map_attribute(helper, attribute, value) ==
    IF attribute = "on_off" THEN Some(Dict1(SaswellHelperDP[helper], value)) ELSE None

----------------------------------------------------------------------------
(* Outbound frames *)

\* payload width in bytes of each manufacturer attribute (t.uint8_t / t.uint32_t / t.int32s)
SaswellManufWidth(attrid) ==
    IF attrid \in {SASWELL_TARGET_TEMP_ATTR, SASWELL_ROOM_TEMP_ATTR,
                   SASWELL_TEMP_CORRECTION_ATTR}
    THEN 4 ELSE 1

\* the payload bytes of a value of the given width, most significant byte first
\* (two's complement for a negative value)
Data_from_value(width, value) ==
    [i \in 1..width |-> (value \div (256 ^ (width - i))) % 256]

\* the signed value a big-endian byte string carries
BytesValue(bytes) ==
    LET RECURSIVE acc(_)
        acc(n) == IF n = 0 THEN 0
                  ELSE IF n = 1
                  THEN (IF bytes[1] >= 128 THEN bytes[1] - 256 ELSE bytes[1])
                  ELSE 256 * acc(n - 1) + bytes[n]
    IN  acc(Len(bytes))

\* TuyaManufClusterAttributes.write_attributes for a one-entry dict: one set_data
\* frame carrying the next sequence number
SetDataFrame(tsn, attrs) ==
    LET dp == CHOOSE k \in DOMAIN attrs : TRUE
    IN  [cluster |-> TUYA_CLUSTER_ID, command_id |-> TUYA_SET_DATA,
         sequence |-> tsn, tsn |-> tsn, dp |-> dp,
         data |-> Data_from_value(SaswellManufWidth(dp), attrs[dp])]

\* application.get_sequence(): an 8-bit counter
NextSeq(n) == (n + 1) % 256

----------------------------------------------------------------------------
(* Moes: the six-slot workday and weekend schedules *)

MOES_TARGET_TEMP_ATTR == 514
MOES_TEMPERATURE_ATTR == 515
MOES_MODE_ATTR == 1028
MOES_CHILD_LOCK_ATTR == 263
MOES_TEMP_CALIBRATION_ATTR == 556
MOES_MIN_TEMPERATURE_ATTR == 614
MOES_MAX_TEMPERATURE_ATTR == 615
MOES_WINDOW_DETECT_ATTR == 104
MOES_BOOST_TIME_ATTR == 617
MOES_FORCE_VALVE_ATTR == 1130
MOES_COMFORT_TEMP_ATTR == 619
MOES_ECO_TEMP_ATTR == 620
MOES_VALVE_STATE_ATTR == 621
MOES_BATTERY_LOW_ATTR == 366
MOES_WEEK_FORMAT_ATTR == 1135
MOES_AWAY_TEMP_ATTR == 626
MOES_AUTO_LOCK_ATTR == 372
MOES_AWAY_DAYS_ATTR == 629
MOES_SCHEDULE_WORKDAY_ATTR == 112
MOES_SCHEDULE_WEEKEND_ATTR == 113

\* MoesManufCluster.DIRECT_MAPPED_ATTRS: datapoint -> <<attribute, factor>>, the
\* factor being 1 where the table holds no converter
MoesDirectMapped ==
    [a \in {MOES_TEMPERATURE_ATTR, MOES_TARGET_TEMP_ATTR, MOES_AWAY_TEMP_ATTR,
             MOES_COMFORT_TEMP_ATTR, MOES_ECO_TEMP_ATTR, MOES_TEMP_CALIBRATION_ATTR,
             MOES_MIN_TEMPERATURE_ATTR, MOES_MAX_TEMPERATURE_ATTR,
             MOES_VALVE_STATE_ATTR, MOES_AWAY_DAYS_ATTR, MOES_BOOST_TIME_ATTR,
             MOES_MODE_ATTR, MOES_WEEK_FORMAT_ATTR, MOES_FORCE_VALVE_ATTR} |->
        IF a = MOES_TEMPERATURE_ATTR THEN <<"local_temperature", 10>>
        ELSE IF a = MOES_TARGET_TEMP_ATTR THEN <<"occupied_heating_setpoint", 10>>
        ELSE IF a = MOES_AWAY_TEMP_ATTR THEN <<"unoccupied_heating_setpoint", 100>>
        ELSE IF a = MOES_COMFORT_TEMP_ATTR THEN <<"comfort_heating_setpoint", 100>>
        ELSE IF a = MOES_ECO_TEMP_ATTR THEN <<"eco_heating_setpoint", 100>>
        ELSE IF a = MOES_TEMP_CALIBRATION_ATTR
        THEN <<"local_temperature_calibration", 10>>
        ELSE IF a = MOES_MIN_TEMPERATURE_ATTR THEN <<"min_heat_setpoint_limit", 100>>
        ELSE IF a = MOES_MAX_TEMPERATURE_ATTR THEN <<"max_heat_setpoint_limit", 100>>
        ELSE IF a = MOES_VALVE_STATE_ATTR THEN <<"valve_open_percentage", 1>>
        ELSE IF a = MOES_AWAY_DAYS_ATTR THEN <<"unoccupied_duration_days", 1>>
        ELSE IF a = MOES_BOOST_TIME_ATTR THEN <<"boost_duration_seconds", 1>>
        ELSE IF a = MOES_MODE_ATTR THEN <<"operation_preset", 1>>
        ELSE IF a = MOES_WEEK_FORMAT_ATTR THEN <<"work_days", 1>>
        ELSE <<"valve_force_state", 1>>]

\* MoesThermostat.mode_change
MoesThermostat_mode_change(s, value) ==
    LET prog_mode == IF value = 1 THEN "Schedule_programming_mode"
                     ELSE IF value = 4 THEN "Economy_mode"
                     ELSE "Simple"
        occupancy == IF value = 0 THEN "Unoccupied" ELSE "Occupied"
    IN  UpdateAttribute(UpdateAttribute(s, "thermostat", "programing_oper_mode", prog_mode),
                        "thermostat", "occupancy", occupancy)

\* MoesUserInterface.autolock_change
autolock_change(s, value) == UpdateAttribute(s, "thermostat_ui", "auto_lock", value)

ScheduleDays == {"workday", "weekend"}

MoesScheduleDP(day) ==
    IF day = "workday" THEN MOES_SCHEDULE_WORKDAY_ATTR ELSE MOES_SCHEDULE_WEEKEND_ATTR

\* the 18 schedule attributes of a day in the order WORKDAY_SCHEDULE_ATTRS and
\* WEEKEND_SCHEDULE_ATTRS list them: <day>_schedule_<slot>_<field>, slot 6 first
ScheduleAttr(day, k) ==
    <<day, 6 - ((k - 1) \div 3),
      IF (k - 1) % 3 = 0 THEN "temperature"
      ELSE IF (k - 1) % 3 = 1 THEN "minute" ELSE "hour">>

ScheduleAttrs(day) == {ScheduleAttr(day, k) : k \in 1..18}

\* the position of a schedule attribute in that order
SchedulePos(attribute) ==
    CHOOSE k \in 1..18 : ScheduleAttr(attribute[1], k) = attribute

\* the default each entry of WORKDAY_SCHEDULE_ATTRS / WEEKEND_SCHEDULE_ATTRS carries
ScheduleDefaults ==
    <<1500, 0, 22, 2000, 30, 17, 1500, 30, 12, 1500, 30, 11, 1500, 0, 8, 2000, 0, 6>>

\* schedule_change with the temperatures cached as they arrive
schedule_change_raw_temperature(s, attr, value) ==
    LET day == IF attr = MOES_SCHEDULE_WORKDAY_ATTR THEN "workday" ELSE "weekend"
        RECURSIVE upd(_, _)
        upd(st, k) ==
            IF k = 0 THEN st
            ELSE upd(UpdateAttribute(st, "thermostat", ScheduleAttr(day, k),
                         IF (k - 1) % 3 = 2 THEN value[k] % 64 ELSE value[k]),
                     k - 1)
    IN  upd(s, 18)

\* MoesThermostat.schedule_change: value[17] down to value[0]; the hours lose their
\* two top bits (& 0x3F), the temperatures are cached * 100
schedule_change(s, attr, value) ==
    LET day == IF attr = MOES_SCHEDULE_WORKDAY_ATTR THEN "workday" ELSE "weekend"
        RECURSIVE upd(_, _)
        upd(st, k) ==
            IF k = 0 THEN st
            ELSE upd(UpdateAttribute(st, "thermostat", ScheduleAttr(day, k),
                         IF (k - 1) % 3 = 2 THEN value[k] % 64
                         ELSE IF (k - 1) % 3 = 1 THEN value[k]
                         ELSE value[k] * 100),
                     k - 1)
    IN  upd(s, 18)

\* MoesWindowDetection.window_detect_change: value = [minutes, temperature, on/off]
window_detect_change(s, value) ==
    UpdateAttribute(
        UpdateAttribute(
            UpdateAttribute(s, "window_detection", "window_detection_timeout_minutes",
                            value[1]),
            "window_detection", "window_detection_temperature", value[2] * 100),
        "window_detection", "on_off", value[3])

\* MoesManufCluster._update_attribute
MoesManufCluster_update_attribute(s, attrid, value) ==
    LET s1 == UpdateAttribute(s, "tuya_manufacturer", attrid, value)
        s2 == IF attrid \in DOMAIN MoesDirectMapped
              THEN temperature_change(s1, MoesDirectMapped[attrid][1],
                                      value * MoesDirectMapped[attrid][2])
              ELSE IF attrid \in {MOES_SCHEDULE_WORKDAY_ATTR, MOES_SCHEDULE_WEEKEND_ATTR}
              THEN schedule_change(s1, attrid, value)
              ELSE s1
    IN  IF attrid = MOES_WINDOW_DETECT_ATTR THEN window_detect_change(s2, value)
        ELSE IF attrid = MOES_MODE_ATTR THEN MoesThermostat_mode_change(s2, value)
        ELSE IF attrid = MOES_VALVE_STATE_ATTR THEN state_change(s2, value)
        ELSE IF attrid = MOES_CHILD_LOCK_ATTR
        THEN ui_child_lock_change(s2, IF value # 0 THEN 1 ELSE 0)
        ELSE IF attrid = MOES_AUTO_LOCK_ATTR
        THEN autolock_change(s2, IF value # 0 THEN 1 ELSE 0)
        ELSE IF attrid = MOES_BATTERY_LOW_ATTR
        THEN battery_change(s2, IF value # 0 THEN 5 ELSE 100)
        ELSE s2

\* self._attr_cache.get(attr, default)
GetOr(d, k, default) == IF k \in DOMAIN d THEN d[k] ELSE default

\* map_attribute serialising merely the written field
MoesThermostat_map_schedule_written_only(cache, attribute, value) ==
    LET day == attribute[1]
        data == [k \in 1..18 |->
                    IF ScheduleAttr(day, k) # attribute THEN 0
                    ELSE IF (k - 1) % 3 = 0 THEN PyRound(value, 100) ELSE value]
    IN  Some(Dict1(MoesScheduleDP(day), data))

\* MoesThermostat.map_attribute for an attribute of WORKDAY_SCHEDULE_ATTRS or
\* WEEKEND_SCHEDULE_ATTRS: all 18 fields, the unwritten ones from the cache or
\* their defaults, every temperature sent as round(value / 100)
MoesThermostat_map_schedule(cache, attribute, value) ==
    LET day == attribute[1]
        data == [k \in 1..18 |->
                    LET attr == ScheduleAttr(day, k)
                        val == IF attr = attribute THEN value
                               ELSE GetOr(cache, attr, ScheduleDefaults[k])
                    IN  IF (k - 1) % 3 = 0 THEN PyRound(val, 100) ELSE val]
    IN  Some(Dict1(MoesScheduleDP(day), data))

\* the set_data frame of a datapoint whose payload is a list of bytes
ListDataFrame(tsn, attrs) ==
    LET dp == CHOOSE k \in DOMAIN attrs : TRUE
    IN  [cluster |-> TUYA_CLUSTER_ID, command_id |-> TUYA_SET_DATA,
         sequence |-> tsn, tsn |-> tsn, dp |-> dp, data |-> attrs[dp]]

----------------------------------------------------------------------------
(* Devices *)

SaswellDev == "S1"
ZonnsmartDev == "Z1"
Devices == {SaswellDev, ZonnsmartDev}

MoesDev == "M1"
SiterwellDev == "W1"
AllDevices == Devices \cup {MoesDev, SiterwellDev}

\* a second device of each of the two families that keep a module global
SaswellDev2 == "S2"
ZonnsmartDev2 == "Z2"
SaswellDevices == {SaswellDev, SaswellDev2}
ZonnsmartDevices == {ZonnsmartDev, ZonnsmartDev2}
Fleet == AllDevices \cup SaswellDevices \cup ZonnsmartDevices

SaswellClusters ==
    {"tuya_manufacturer", "thermostat", "thermostat_ui", "power", "analog_output"}
        \cup SaswellHelpers

ZonnsmartClusters ==
    {"tuya_manufacturer", "thermostat", "thermostat_ui", "power", "analog_output",
     "window_detection", "window_temperature", "child_lock", "boost", "online_mode"}

\* the caches of a Saswell device once every cluster's __init__ has run
SaswellConstructed ==
    SaswellTemperatureOffset_init(
        SaswellThermostat_init(
            HandlerState([c \in SaswellClusters |-> EmptyDict]))).cache

\* the caches of a Zonnsmart device once every cluster's __init__ has run
ZonnsmartConstructed ==
    ZONNSMARTWindowOpenedTemp_init(
        ZONNSMARTTemperatureOffset_init(
            ZONNSMARTWindowDetection_init(
                ZONNSMARTThermostat_init(
                    HandlerState([c \in ZonnsmartClusters |-> EmptyDict]))))).cache

\* the clusters of a Moes device; none of their __init__ methods caches anything
MoesClusters ==
    {"tuya_manufacturer", "thermostat", "window_detection", "thermostat_ui", "power"}

\* the clusters of a Siterwell device
SiterwellClusters == {"tuya_manufacturer", "thermostat", "thermostat_ui", "power"}

SiterwellConstructed == [c \in SiterwellClusters |-> EmptyDict]

MoesConstructed == [c \in MoesClusters |-> EmptyDict]

\* the caches of a device after construction
Constructed(d) ==
    IF d \in SaswellDevices THEN SaswellConstructed
    ELSE IF d \in ZonnsmartDevices THEN ZonnsmartConstructed
    ELSE IF d = SiterwellDev THEN SiterwellConstructed
    ELSE MoesConstructed

\* SaswellManufCluster.__init__: SaswellManufClusterSelf[ieee] = self
SaswellManufCluster_init(registry, dev) ==
    [d \in DOMAIN registry \cup {dev} |-> IF d = dev THEN dev ELSE registry[d]]

\* ZONNSMARTManufCluster.__init__: ZonnsmartManuClusterSelf = self
ZONNSMARTManufCluster_init(registry, dev) == Some(dev)

\* the module globals once the devices of order have been constructed one by one
Registered(order) ==
    LET RECURSIVE saswell(_), zonnsmart(_)
        saswell(n) ==
            IF n = 0 THEN EmptyDict
            ELSE IF order[n] \in SaswellDevices
            THEN SaswellManufCluster_init(saswell(n - 1), order[n])
            ELSE saswell(n - 1)
        zonnsmart(n) ==
            IF n = 0 THEN None
            ELSE IF order[n] \in ZonnsmartDevices
            THEN ZONNSMARTManufCluster_init(zonnsmart(n - 1), order[n])
            ELSE zonnsmart(n - 1)
    IN  /\ SaswellManufClusterSelf = saswell(Len(order))
        /\ ZonnsmartManuClusterSelf = zonnsmart(Len(order))

\* one device of each family
OneOfEach == <<SaswellDev, ZonnsmartDev, MoesDev, SiterwellDev>>

NoOp == [op |-> "init", dev |-> "", cluster |-> "", attr |-> "", value |-> 0,
         new_attrs |-> None]

\* everything but the caches, as construction leaves it
Quiet ==
    /\ updates = <<>>
    /\ raised = <<>>
    /\ outbound = <<>>
    /\ seq = [d \in AllDevices |-> 0]
    /\ result = None
    /\ lastOp = NoOp
    /\ transport = None
    /\ nreports = 0
    /\ via = None

Init ==
    /\ attr_cache = [d \in AllDevices |-> Constructed(d)]
    /\ Registered(OneOfEach)
    /\ Quiet

\* a Saswell thermostat cache that already holds a mode and temperatures, as left
\* by an earlier session
SeededThermostats ==
    LET base == SaswellConstructed["thermostat"]
        opt(d, a, vs) == {d} \cup {Put(d, a, v) : v \in vs}
        withMode == opt(base, "system_mode", {"Off", "Heat"})
        withLocal == UNION {opt(d, "local_temperature", SeedLo..SeedHi) : d \in withMode}
    IN  UNION {opt(d, "occupied_heating_setpoint", SeedLo..SeedHi) : d \in withLocal}

InitSeeded ==
    /\ \E th \in SeededThermostats :
          attr_cache = [d \in AllDevices |->
                           IF d = SaswellDev
                           THEN [SaswellConstructed EXCEPT !["thermostat"] = th]
                           ELSE Constructed(d)]
    /\ Registered(OneOfEach)
    /\ Quiet

----------------------------------------------------------------------------
(* Inbound reports *)

TempVals == MinTemp..MaxTemp
CalVals == (-MaxCal)..MaxCal

\* the datapoints of the Saswell thermostat subsystem
SaswellThermostatDPs ==
    {SASWELL_ONOFF_ATTR, SASWELL_ROOM_TEMP_ATTR, SASWELL_TARGET_TEMP_ATTR,
     SASWELL_TEMP_CORRECTION_ATTR}

\* every datapoint SaswellManufCluster.attributes declares
SaswellDPs ==
    SaswellThermostatDPs \cup {SaswellHelperDP[h] : h \in SaswellHelpers}
        \cup {SASWELL_BATTERY_ALARM_ATTR}

\* the values reported for each datapoint
SaswellDPValues(attrid) ==
    IF attrid \in {SASWELL_ROOM_TEMP_ATTR, SASWELL_TARGET_TEMP_ATTR} THEN TempVals
    ELSE IF attrid = SASWELL_TEMP_CORRECTION_ATTR THEN CalVals
    ELSE IF attrid = SASWELL_ONOFF_ATTR THEN {0, 1, 2}
    ELSE {0, 1}

\* what an operation leaves behind besides the caches
Finish(s, op) ==
    /\ updates' = s.upd
    /\ raised' = s.exc
    /\ outbound' = <<>>
    /\ result' = None
    /\ lastOp' = op
    /\ transport' = None
    /\ via' = None
    /\ UNCHANGED seq

\* handle_cluster_request -> SaswellManufCluster._update_attribute(attrid, value)
SaswellReport(dev, attrid, value) ==
    LET s == SaswellManufCluster_update_attribute(
                 HandlerState(attr_cache[dev]), attrid, value)
    IN  /\ attr_cache' = [attr_cache EXCEPT ![dev] = s.cache]
        /\ Finish(s, [op |-> "report", dev |-> dev, cluster |-> "tuya_manufacturer",
                      attr |-> attrid, value |-> value, new_attrs |-> None])

\* the datapoints of the Zonnsmart thermostat subsystem
ZonnsmartThermostatDPs ==
    {ZONNSMART_TEMPERATURE_ATTR, ZONNSMART_TARGET_TEMP_ATTR,
     ZONNSMART_HEATING_STOPPING_ATTR, ZONNSMART_MODE_ATTR,
     ZONNSMART_FROST_PROTECT_ATTR}

\* the datapoints ZONNSMARTManufCluster._update_attribute has a rule for, and one
\* (week format) it only caches
ZonnsmartDPs ==
    ZonnsmartThermostatDPs \cup
    {ZONNSMART_TEMPERATURE_CALIBRATION_ATTR, ZONNSMART_HOLIDAY_TEMP_ATTR,
     ZONNSMART_FAULT_DETECTION_ATTR, ZONNSMART_WINDOW_DETECT_ATTR,
     ZONNSMART_OPENED_WINDOW_TEMP, ZONNSMART_CHILD_LOCK_ATTR, ZONNSMART_BATTERY_ATTR,
     ZONNSMART_ONLINE_MODE_ENUM_ATTR, ZONNSMART_BOOST_TIME_ATTR,
     ZONNSMART_WEEK_FORMAT_ATTR}

ZonnsmartDPValues(attrid) ==
    IF attrid \in {ZONNSMART_TEMPERATURE_ATTR, ZONNSMART_TARGET_TEMP_ATTR,
                   ZONNSMART_HOLIDAY_TEMP_ATTR}
    THEN TempVals
    ELSE IF attrid = ZONNSMART_TEMPERATURE_CALIBRATION_ATTR THEN CalVals
    ELSE IF attrid = ZONNSMART_MODE_ATTR THEN 0..4
    ELSE IF attrid = ZONNSMART_OPENED_WINDOW_TEMP THEN {10 * MinTemp}
    ELSE IF attrid = ZONNSMART_BATTERY_ATTR THEN {0, 100}
    ELSE IF attrid = ZONNSMART_BOOST_TIME_ATTR THEN {0, 299}
    ELSE {0, 1}

\* handle_cluster_request -> ZONNSMARTManufCluster._update_attribute(attrid, value)
\* the report handled on the cache of the device that registered itself last
ZonnsmartReport_through_global(dev, attrid, value) ==
    LET s == ZONNSMARTManufCluster_update_attribute(
                 HandlerState(attr_cache[ZonnsmartManuClusterSelf[1]]), attrid, value)
    IN  /\ attr_cache' = [attr_cache EXCEPT ![dev] = s.cache]
        /\ Finish(s, [op |-> "report", dev |-> dev, cluster |-> "tuya_manufacturer",
                      attr |-> attrid, value |-> value, new_attrs |-> None])

ZonnsmartReport(dev, attrid, value) ==
    LET s == ZONNSMARTManufCluster_update_attribute(
                 HandlerState(attr_cache[dev]), attrid, value)
    IN  /\ attr_cache' = [attr_cache EXCEPT ![dev] = s.cache]
        /\ Finish(s, [op |-> "report", dev |-> dev, cluster |-> "tuya_manufacturer",
                      attr |-> attrid, value |-> value, new_attrs |-> None])

----------------------------------------------------------------------------
(* Attribute writes *)

\* values written to occupied_heating_setpoint and local_temperature_calibration
SetpointWrites == {10 * MinTemp + d : d \in {0, 4, 5, 6, 10, 14, 15, 16}}
CalibrationWrites == {-(10 * MaxCal) - 5, -6, -5, -4, 4, 5, 6, 10 * MaxCal + 5}

SaswellThermostatWrites ==
    ({"occupied_heating_setpoint"} \X SetpointWrites)
        \cup ({"local_temperature_calibration"} \X CalibrationWrites)
        \cup ({"system_mode"} \X {"Off", "Heat", "Auto"})
        \cup ({"local_temperature"} \X {10 * MinTemp})

\* a cluster of any registered Saswell device standing in for the device's own
ManufacturerOf_any_registered(dev, cluster) ==
    IF dev \in DOMAIN SaswellManufClusterSelf
       /\ cluster \in SaswellHelpers \cup {"analog_output"}
    THEN SaswellManufClusterSelf[CHOOSE d \in DOMAIN SaswellManufClusterSelf : TRUE]
    ELSE IF dev \in ZonnsmartDevices
            /\ cluster \in ZonnsmartHelpers \cup {"window_temperature"}
    THEN ZonnsmartManuClusterSelf[1]
    ELSE dev

\* the device whose manufacturer cluster a write on the cluster of dev goes through:
\* the Saswell helpers and offset cluster look their device's ieee up in
\* SaswellManufClusterSelf, the Zonnsmart on/off helpers and opened-window
\* temperature cluster use ZonnsmartManuClusterSelf, every other cluster uses
\* self.endpoint.tuya_manufacturer
ManufacturerOf(dev, cluster) ==
    IF dev \in SaswellDevices /\ cluster \in SaswellHelpers \cup {"analog_output"}
    THEN SaswellManufClusterSelf[dev]
    ELSE IF dev \in ZonnsmartDevices
            /\ cluster \in ZonnsmartHelpers \cup {"window_temperature"}
    THEN ZonnsmartManuClusterSelf[1]
    ELSE dev

\* the device may issue another frame: the run is bounded to MaxSeq frames counted
\* from 0, and to the frames that lead the counter across its wraparound
CanSend(dev) == seq[dev] < MaxSeq \/ seq[dev] >= 256 - MaxSeq

\* the statuses a manufacturer cluster's write may complete with
TransportStatuses == {"SUCCESS", "FAILURE"}

\* write_attributes with the sequence number of the previous frame used again
WriteMappedVia_reuse(dev, cluster, attribute, value, new_attrs, st) ==
    LET target == ManufacturerOf(dev, cluster)
    IN  /\ CanSend(target)
        /\ lastOp' = [op |-> "write", dev |-> dev, cluster |-> cluster,
                      attr |-> attribute, value |-> value, new_attrs |-> new_attrs]
        /\ updates' = <<>>
        /\ raised' = <<>>
        /\ UNCHANGED attr_cache
        /\ IF new_attrs = None \/ new_attrs = Some(EmptyDict)
           THEN /\ outbound' = <<>>
                /\ result' = Some(<<"FAILURE">>)
                /\ transport' = None
                /\ via' = None
                /\ UNCHANGED seq
           ELSE /\ seq' = [seq EXCEPT ![target] = IF @ = 0 THEN NextSeq(@) ELSE @]
                /\ outbound' = <<SetDataFrame(seq'[target], new_attrs[1])>>
                /\ result' = Some(<<"SUCCESS">>)
                /\ transport' = Some(st)
                /\ via' = Some(target)

\* what write_attributes does with the mapped attributes of a one-record write:
\* no rule, no traffic and a FAILURE record; otherwise one frame, whose completion
\* status st is not looked at, and SUCCESS
WriteMappedVia(dev, cluster, attribute, value, new_attrs, st) ==
    LET target == ManufacturerOf(dev, cluster)
    IN  /\ CanSend(target)
        /\ lastOp' = [op |-> "write", dev |-> dev, cluster |-> cluster,
                      attr |-> attribute, value |-> value, new_attrs |-> new_attrs]
        /\ updates' = <<>>
        /\ raised' = <<>>
        /\ UNCHANGED attr_cache
        /\ IF new_attrs = None \/ new_attrs = Some(EmptyDict)
           THEN /\ outbound' = <<>>
                /\ result' = Some(<<"FAILURE">>)
                /\ transport' = None
                /\ via' = None
                /\ UNCHANGED seq
           ELSE /\ seq' = [seq EXCEPT ![target] = NextSeq(@)]
                /\ outbound' = <<SetDataFrame(NextSeq(seq[target]), new_attrs[1])>>
                /\ result' = Some(<<"SUCCESS">>)
                /\ transport' = Some(st)
                /\ via' = Some(target)

\* the same when the manufacturer cluster's write completes with SUCCESS
WriteMapped(dev, cluster, attribute, value, new_attrs) ==
    WriteMappedVia(dev, cluster, attribute, value, new_attrs, "SUCCESS")

\* TuyaThermostatCluster.write_attributes on the Saswell thermostat
SaswellThermostatWrite(dev, attribute, value) ==
    WriteMapped(dev, "thermostat", attribute, value,
                SaswellThermostat_map_attribute(attribute, value))

\* an exception that escapes to the caller of the operation
Raise(e) == <<"raise", e>>

\* SaswellCustomOnOff.write_attributes for a one-record write: the mapped attributes
\* are merged with dict.update, which raises TypeError when map_attribute returned
\* None; st is the status the manufacturer cluster's write completes with
SaswellHelperWriteVia(dev, helper, attribute, value, st) ==
    LET new_attrs == SaswellHelper_map_attribute(helper, attribute, value)
    IN  IF new_attrs = None
        THEN /\ CanSend(dev)
             /\ lastOp' = [op |-> "write", dev |-> dev, cluster |-> helper,
                           attr |-> attribute, value |-> value, new_attrs |-> new_attrs]
             /\ updates' = <<>>
             /\ raised' = <<>>
             /\ outbound' = <<>>
             /\ result' = Raise("TypeError")
             /\ transport' = None
             /\ via' = None
             /\ UNCHANGED <<attr_cache, seq>>
        ELSE WriteMappedVia(dev, helper, attribute, value, new_attrs, st)

SaswellHelperWrite(dev, helper, attribute, value) ==
    SaswellHelperWriteVia(dev, helper, attribute, value, "SUCCESS")

SaswellHelperWrites == ({"on_off"} \X {0, 1}) \cup ({"on_time"} \X {0})

----------------------------------------------------------------------------
(* Siterwell *)

SITERWELL_CHILD_LOCK_ATTR == 263
SITERWELL_VALVE_STATE_ATTR == 621
SITERWELL_TARGET_TEMP_ATTR == 514
SITERWELL_TEMPERATURE_ATTR == 515
SITERWELL_BATTERY_ATTR == 533
SITERWELL_MODE_ATTR == 1028

\* SiterwellManufCluster.TEMPERATURE_ATTRS
SiterwellTemperatureAttrs ==
    [a \in {SITERWELL_TEMPERATURE_ATTR, SITERWELL_TARGET_TEMP_ATTR} |->
        IF a = SITERWELL_TEMPERATURE_ATTR
        THEN "local_temperature" ELSE "occupied_heating_setpoint"]

\* SiterwellThermostat.mode_change
SiterwellThermostat_mode_change(s, value) ==
    IF value = 0 THEN UpdateAttribute(s, "thermostat", "system_mode", "Off")
    ELSE UpdateAttribute(UpdateAttribute(s, "thermostat", "system_mode", "Heat"),
                         "thermostat", "programing_oper_mode",
                         IF value = 1 THEN "Schedule_programming_mode" ELSE "Simple")

\* SiterwellManufCluster._update_attribute
SiterwellManufCluster_update_attribute(s, attrid, value) ==
    LET s1 == UpdateAttribute(s, "tuya_manufacturer", attrid, value)
    IN  IF attrid \in DOMAIN SiterwellTemperatureAttrs
        THEN temperature_change(s1, SiterwellTemperatureAttrs[attrid], value * 10)
        ELSE IF attrid = SITERWELL_MODE_ATTR
        THEN state_change(SiterwellThermostat_mode_change(s1, value),
                          IF value > 0 THEN 1 ELSE 0)
        ELSE IF attrid = SITERWELL_VALVE_STATE_ATTR THEN state_change(s1, value)
        ELSE IF attrid = SITERWELL_CHILD_LOCK_ATTR
        THEN ui_child_lock_change(s1, IF value # 0 THEN 1 ELSE 0)
        ELSE IF attrid = SITERWELL_BATTERY_ATTR THEN battery_change(s1, value)
        ELSE s1

----------------------------------------------------------------------------
(* Multi-record writes on the Zonnsmart on/off helpers and on the Moes window *)
(* detection cluster.  A write is a sequence of <<attribute, value>> records. *)

\* payload width in bytes of each Zonnsmart manufacturer attribute
ZonnsmartManufWidth(attrid) ==
    IF attrid \in {ZONNSMART_TARGET_TEMP_ATTR, ZONNSMART_TEMPERATURE_ATTR,
                   ZONNSMART_TEMPERATURE_CALIBRATION_ATTR, ZONNSMART_HOLIDAY_TEMP_ATTR,
                   ZONNSMART_BATTERY_ATTR, ZONNSMART_BOOST_TIME_ATTR,
                   ZONNSMART_OPENED_WINDOW_TEMP}
    THEN 4 ELSE 1

ZonnsmartSetDataFrame(tsn, attrs) ==
    LET dp == CHOOSE k \in DOMAIN attrs : TRUE
    IN  [cluster |-> TUYA_CLUSTER_ID, command_id |-> TUYA_SET_DATA,
         sequence |-> tsn, tsn |-> tsn, dp |-> dp,
         data |-> Data_from_value(ZonnsmartManufWidth(dp), attrs[dp])]

\* what a write leaves behind: the caches and updates of s, at most one frame, which
\* completed with st, and the value returned to the caller
Complete(dev, op, s, frame, st, res) ==
    LET target == ManufacturerOf(dev, op.cluster)
    IN  /\ CanSend(target)
        /\ lastOp' = op
        /\ attr_cache' = [attr_cache EXCEPT ![dev] = s.cache]
        /\ updates' = s.upd
        /\ raised' = s.exc
        /\ result' = res
        /\ IF frame = None
           THEN /\ outbound' = <<>>
                /\ transport' = None
                /\ via' = None
                /\ UNCHANGED seq
           ELSE /\ outbound' = <<frame[1]>>
                /\ transport' = Some(st)
                /\ via' = Some(target)
                /\ seq' = [seq EXCEPT ![target] = NextSeq(@)]

\* one FAILURE status record for each record of the write
FailurePerRecord(records) == [i \in 1..Len(records) |-> "FAILURE"]

\* the value of the last record that names the attribute
LastValue(records, attribute) ==
    LET idx == {i \in 1..Len(records) : records[i][1] = attribute}
    IN  records[CHOOSE i \in idx : \A j \in idx : j <= i][2]

\* get_attr_val_to_write of ZONNSMARTBoost, ZONNSMARTChildLock, ZONNSMARTOnlineMode
get_attr_val_to_write(helper, value) ==
    IF helper = "boost" THEN Dict1(ZONNSMART_BOOST_TIME_ATTR, IF value # 0 THEN 299 ELSE 0)
    ELSE IF helper = "child_lock" THEN Dict1(ZONNSMART_CHILD_LOCK_ATTR, value)
    ELSE Dict1(ZONNSMART_ONLINE_MODE_BOOL_ATTR, value)

\* ZONNSMARTHelperOnOff.write_attributes; st is the status the manufacturer
\* cluster's write returns, which is handed on to the caller
ZONNSMARTHelperOnOff_write_attributes(dev, helper, records, st) ==
    LET has_change == \E i \in 1..Len(records) : records[i][1] = "on_off"
        attr_val == get_attr_val_to_write(helper, LastValue(records, "on_off"))
        op == [op |-> "write", dev |-> dev, cluster |-> helper, attr |-> records,
               value |-> 0, new_attrs |-> IF has_change THEN Some(attr_val) ELSE None]
        s == HandlerState(attr_cache[dev])
    IN  IF records = <<>> THEN Complete(dev, op, s, None, st, Some(<<"SUCCESS">>))
        ELSE IF has_change
        THEN Complete(dev, op, s,
                      Some(ZonnsmartSetDataFrame(
                               NextSeq(seq[ManufacturerOf(dev, helper)]), attr_val)),
                      st, Some(<<st>>))
        ELSE Complete(dev, op, s, None, st, Some(FailurePerRecord(records)))

\* the float value / 100
Hundredths(value) == <<"hundredths", value>>

MoesWindowRules ==
    {"on_off", "window_detection_temperature", "window_detection_timeout_minutes"}

\* the data24 payload MoesWindowDetection.write_attributes builds: the cached values
\* or their defaults, overwritten record by record
MoesWindowData(cache, records) ==
    LET RECURSIVE put(_, _)
        put(data, i) ==
            IF i > Len(records) THEN data
            ELSE put(IF records[i][1] = "on_off"
                     THEN [data EXCEPT ![3] = records[i][2]]
                     ELSE IF records[i][1] = "window_detection_temperature"
                     THEN [data EXCEPT ![2] = Hundredths(records[i][2])]
                     ELSE IF records[i][1] = "window_detection_timeout_minutes"
                     THEN [data EXCEPT ![1] = records[i][2]]
                     ELSE data,
                     i + 1)
    IN  put(<<GetOr(cache, "window_detection_timeout_minutes", 5),
              PyRound(GetOr(cache, "window_detection_temperature", 50), 100),
              GetOr(cache, "on_off", 0)>>, 1)

\* write_attributes taking every record for a change
MoesWindowDetection_write_attributes_any_change(dev, records, st) ==
    LET data == MoesWindowData(attr_cache[dev]["window_detection"], records)
        new_attrs == Dict1(MOES_WINDOW_DETECT_ATTR, data)
        op == [op |-> "write", dev |-> dev, cluster |-> "window_detection",
               attr |-> records, value |-> 0, new_attrs |-> Some(new_attrs)]
        s == HandlerState(attr_cache[dev])
    IN  IF records = <<>> THEN Complete(dev, op, s, None, st, Some(<<"SUCCESS">>))
        ELSE Complete(dev, op, s, Some(ListDataFrame(NextSeq(seq[dev]), new_attrs)),
                      st, Some(<<st>>))

\* MoesWindowDetection.write_attributes
MoesWindowDetection_write_attributes(dev, records, st) ==
    LET has_change == \E i \in 1..Len(records) : records[i][1] \in MoesWindowRules
        data == MoesWindowData(attr_cache[dev]["window_detection"], records)
        new_attrs == Dict1(MOES_WINDOW_DETECT_ATTR, data)
        op == [op |-> "write", dev |-> dev, cluster |-> "window_detection",
               attr |-> records, value |-> 0,
               new_attrs |-> IF has_change THEN Some(new_attrs) ELSE None]
        s == HandlerState(attr_cache[dev])
    IN  IF records = <<>> THEN Complete(dev, op, s, None, st, Some(<<"SUCCESS">>))
        ELSE IF has_change
        THEN Complete(dev, op, s, Some(ListDataFrame(NextSeq(seq[dev]), new_attrs)),
                      st, Some(<<st>>))
        ELSE Complete(dev, op, s, None, st, Some(FailurePerRecord(records)))

----------------------------------------------------------------------------
(* Writes on the temperature offset (analog output) clusters, one attribute  *)
(* a write.                                                                  *)

\* the attribute names of the analog output cluster; a written key outside this set
\* stands for a numeric id that is not in self.attributes
AnalogOutputAttributes ==
    {"description", "max_present_value", "min_present_value", "present_value",
     "resolution", "application_type", "engineering_units"}

\* SaswellTemperatureOffset.write_attributes: an invalid id is logged and skipped;
\* a valid attribute is cached at once and its value sent as the temperature
\* correction datapoint; the status the manufacturer cluster returns is dropped
SaswellTemperatureOffset_write_attributes(dev, attribute, value, st) ==
    LET s == HandlerState(attr_cache[dev])
        valid == attribute \in AnalogOutputAttributes
        new_attrs == Dict1(SASWELL_TEMP_CORRECTION_ATTR, value)
        op == [op |-> "write", dev |-> dev, cluster |-> "analog_output",
               attr |-> attribute, value |-> value,
               new_attrs |-> IF valid THEN Some(new_attrs) ELSE None]
    IN  IF valid
        THEN Complete(dev, op, UpdateAttribute(s, "analog_output", attribute, value),
                      Some(SetDataFrame(
                               NextSeq(seq[ManufacturerOf(dev, "analog_output")]),
                               new_attrs)),
                      st, Some(<<"SUCCESS">>))
        ELSE Complete(dev, op, s, None, st, Some(<<"SUCCESS">>))

\* ZONNSMARTTemperatureOffset.write_attributes: the same, sending value * 10; the
\* cached number of degrees is held in tenths
ZONNSMARTTemperatureOffset_write_attributes(dev, attribute, value, st) ==
    LET s == HandlerState(attr_cache[dev])
        valid == attribute \in AnalogOutputAttributes
        new_attrs == Dict1(ZONNSMART_TEMPERATURE_CALIBRATION_ATTR, value * 10)
        op == [op |-> "write", dev |-> dev, cluster |-> "analog_output",
               attr |-> attribute, value |-> value,
               new_attrs |-> IF valid THEN Some(new_attrs) ELSE None]
    IN  IF valid
        THEN Complete(dev, op,
                      UpdateAttribute(s, "analog_output", attribute, Tenths(value * 10)),
                      Some(ZonnsmartSetDataFrame(NextSeq(seq[dev]), new_attrs)),
                      st, Some(<<"SUCCESS">>))
        ELSE Complete(dev, op, s, None, st, Some(<<"SUCCESS">>))

\* ZONNSMARTWindowOpenedTemp.write_attributes: caches the attribute at once and
\* sends value * 10 as the opened-window temperature datapoint through
\* ZonnsmartManuClusterSelf
ZONNSMARTWindowOpenedTemp_write_attributes(dev, attribute, value, st) ==
    LET s == HandlerState(attr_cache[dev])
        valid == attribute \in AnalogOutputAttributes
        new_attrs == Dict1(ZONNSMART_OPENED_WINDOW_TEMP, value * 10)
        op == [op |-> "write", dev |-> dev, cluster |-> "window_temperature",
               attr |-> attribute, value |-> value,
               new_attrs |-> IF valid THEN Some(new_attrs) ELSE None]
    IN  IF valid
        THEN Complete(dev, op,
                      UpdateAttribute(s, "window_temperature", attribute,
                                      Tenths(value * 10)),
                      Some(ZonnsmartSetDataFrame(
                               NextSeq(seq[ManufacturerOf(dev, "window_temperature")]),
                               new_attrs)),
                      st, Some(<<"SUCCESS">>))
        ELSE Complete(dev, op, s, None, st, Some(<<"SUCCESS">>))

----------------------------------------------------------------------------
(* Cluster commands *)

\* what a command leaves behind when it issues no write
CommandDone(op, res) ==
    /\ lastOp' = op
    /\ updates' = <<>>
    /\ raised' = <<>>
    /\ outbound' = <<>>
    /\ transport' = None
    /\ via' = None
    /\ result' = Some(res)
    /\ UNCHANGED <<attr_cache, seq>>

\* what a command leaves behind when its write_attributes issued one frame that
\* completed with st and returned the status res
CommandWrote(dev, op, st, res) ==
    LET target == ManufacturerOf(dev, op.cluster)
    IN  /\ lastOp' = op
        /\ updates' = <<>>
        /\ raised' = <<>>
        /\ seq' = [seq EXCEPT ![target] = NextSeq(@)]
        /\ outbound' = <<SetDataFrame(NextSeq(seq[target]), op.new_attrs[1])>>
        /\ transport' = Some(st)
        /\ via' = Some(target)
        /\ result' = Some(res)
        /\ UNCHANGED attr_cache

\* Thermostat.SetpointMode.Heat and .Both
SetpointHeat == 0
SetpointBoth == 2

\* TuyaThermostatCluster.command on the Saswell thermostat: setpoint raise/lower
\* (0x0000) writes the cached occupied_heating_setpoint plus offset * 10
SaswellThermostatCommand(dev, command_id, mode, offset) ==
    LET cache == attr_cache[dev]["thermostat"]
        op(new_attrs) == [op |-> "command", dev |-> dev, cluster |-> "thermostat",
                          attr |-> command_id, value |-> <<mode, offset>>,
                          new_attrs |-> new_attrs]
    IN  /\ CanSend(dev)
        /\ IF command_id # 0 \/ mode \notin {SetpointHeat, SetpointBoth}
           THEN CommandDone(op(None), <<"Default_Response", "UNSUP_CLUSTER_COMMAND">>)
           ELSE IF "occupied_heating_setpoint" \notin DOMAIN cache
           THEN CommandDone(op(None), <<"Default_Response", "FAILURE">>)
           ELSE CommandWrote(dev,
                    op(SaswellThermostat_map_attribute(
                           "occupied_heating_setpoint",
                           cache["occupied_heating_setpoint"] + offset * 10)),
                    "SUCCESS", <<"Default_Response", "SUCCESS">>)

\* SaswellCustomOnOff.command with an unknown command taken for toggle
SaswellHelperCommand_toggle_default(dev, helper, command_id, st) ==
    LET cache == attr_cache[dev][helper]
        op(v, new_attrs) == [op |-> "command", dev |-> dev, cluster |-> helper,
                             attr |-> command_id, value |-> v, new_attrs |-> new_attrs]
        write(v) == CommandWrote(dev, op(v, SaswellHelper_map_attribute(helper, "on_off", v)),
                                 st, <<"list", "SUCCESS">>)
    IN  /\ CanSend(ManufacturerOf(dev, helper))
        /\ IF command_id = 0 THEN write(0)
           ELSE IF command_id = 1 THEN write(1)
           ELSE IF "on_off" \notin DOMAIN cache
                THEN CommandDone(op(0, None), <<"bare", "FAILURE">>)
                ELSE write(IF cache["on_off"] = 0 THEN 1 ELSE 0)

\* SaswellCustomOnOff.command: off (0x00), on (0x01), toggle (0x02) write on_off
\* through write_attributes and return its status
SaswellHelperCommand(dev, helper, command_id, st) ==
    LET cache == attr_cache[dev][helper]
        op(v, new_attrs) == [op |-> "command", dev |-> dev, cluster |-> helper,
                             attr |-> command_id, value |-> v, new_attrs |-> new_attrs]
        write(v) == CommandWrote(dev, op(v, SaswellHelper_map_attribute(helper, "on_off", v)),
                                 st, <<"list", "SUCCESS">>)
    IN  /\ CanSend(ManufacturerOf(dev, helper))
        /\ IF command_id = 0 THEN write(0)
           ELSE IF command_id = 1 THEN write(1)
           ELSE IF command_id = 2
           THEN IF "on_off" \notin DOMAIN cache
                THEN CommandDone(op(0, None), <<"bare", "FAILURE">>)
                ELSE write(IF cache["on_off"] = 0 THEN 1 ELSE 0)
           ELSE CommandDone(op(0, None), <<"list", "UNSUP_CLUSTER_COMMAND">>)

\* ZONNSMARTHelperOnOff.command: off, on and toggle write on_off through
\* write_attributes and answer with the status of its first record
ZONNSMARTHelperOnOff_command(dev, helper, command_id, st) ==
    LET cache == attr_cache[dev][helper]
        s == HandlerState(attr_cache[dev])
        op(v, new_attrs) == [op |-> "command", dev |-> dev, cluster |-> helper,
                             attr |-> command_id, value |-> v, new_attrs |-> new_attrs]
        write(v) ==
            LET attr_val == get_attr_val_to_write(helper, v)
            IN  Complete(dev, op(v, Some(attr_val)), s,
                         Some(ZonnsmartSetDataFrame(
                               NextSeq(seq[ManufacturerOf(dev, helper)]), attr_val)),
                         st, Some(<<"Default_Response", st>>))
        answer(status) ==
            Complete(dev, op(0, None), s, None, st, Some(<<"Default_Response", status>>))
    IN  IF command_id = 0 THEN write(0)
        ELSE IF command_id = 1 THEN write(1)
        ELSE IF command_id = 2
        THEN IF "on_off" \notin DOMAIN cache
             THEN answer("FAILURE")
             ELSE write(IF cache["on_off"] = 0 THEN 1 ELSE 0)
        ELSE answer("UNSUP_CLUSTER_COMMAND")

\* the command whose toggle requests the cached on_off once more
MoesWindowDetection_command_toggle_same(dev, command_id, st) ==
    LET cache == attr_cache[dev]["window_detection"]
        s == HandlerState(attr_cache[dev])
        op(v, new_attrs) == [op |-> "command", dev |-> dev, cluster |-> "window_detection",
                             attr |-> command_id, value |-> v, new_attrs |-> new_attrs]
        write(v) ==
            LET new_attrs == Dict1(MOES_WINDOW_DETECT_ATTR,
                                   MoesWindowData(cache, <<<<"on_off", v>>>>))
            IN  Complete(dev, op(v, Some(new_attrs)), s,
                         Some(ListDataFrame(NextSeq(seq[dev]), new_attrs)),
                         st, Some(<<"Default_Response", st>>))
        answer(status) ==
            Complete(dev, op(0, None), s, None, st, Some(<<"Default_Response", status>>))
    IN  IF command_id = 0 THEN write(0)
        ELSE IF command_id = 1 THEN write(1)
        ELSE IF command_id = 2
        THEN IF "on_off" \notin DOMAIN cache
             THEN answer("FAILURE")
             ELSE write(cache["on_off"])
        ELSE answer("UNSUP_CLUSTER_COMMAND")

\* MoesWindowDetection.command
MoesWindowDetection_command(dev, command_id, st) ==
    LET cache == attr_cache[dev]["window_detection"]
        s == HandlerState(attr_cache[dev])
        op(v, new_attrs) == [op |-> "command", dev |-> dev, cluster |-> "window_detection",
                             attr |-> command_id, value |-> v, new_attrs |-> new_attrs]
        write(v) ==
            LET new_attrs == Dict1(MOES_WINDOW_DETECT_ATTR,
                                   MoesWindowData(cache, <<<<"on_off", v>>>>))
            IN  Complete(dev, op(v, Some(new_attrs)), s,
                         Some(ListDataFrame(NextSeq(seq[dev]), new_attrs)),
                         st, Some(<<"Default_Response", st>>))
        answer(status) ==
            Complete(dev, op(0, None), s, None, st, Some(<<"Default_Response", status>>))
    IN  IF command_id = 0 THEN write(0)
        ELSE IF command_id = 1 THEN write(1)
        ELSE IF command_id = 2
        THEN IF "on_off" \notin DOMAIN cache
             THEN answer("FAILURE")
             ELSE write(IF cache["on_off"] = 0 THEN 1 ELSE 0)
        ELSE answer("UNSUP_CLUSTER_COMMAND")

----------------------------------------------------------------------------
(* The Saswell thermostat subsystem: on/off, temperature and correction      *)
(* reports, and writes on the thermostat and helper clusters.                *)

ReportThermostatDP ==
    /\ \E a \in SaswellThermostatDPs : \E v \in SaswellDPValues(a) :
          SaswellReport(SaswellDev, a, v)
    /\ UNCHANGED <<nreports, globals>>

WriteThermostat ==
    /\ \E w \in SaswellThermostatWrites :
          SaswellThermostatWrite(SaswellDev, w[1], w[2])
    /\ UNCHANGED <<nreports, globals>>

WriteHelper ==
    /\ \E h \in SaswellHelpers : \E w \in SaswellHelperWrites :
          SaswellHelperWrite(SaswellDev, h, w[1], w[2])
    /\ UNCHANGED <<nreports, globals>>

Next == ReportThermostatDP \/ WriteThermostat \/ WriteHelper

Spec == Init /\ [][Next]_vars

----------------------------------------------------------------------------
(* The Saswell running-state calculator on a thermostat cache that already   *)
(* holds values.                                                             *)

NextSeeded ==
    /\ \E a \in SaswellThermostatDPs \ {SASWELL_TEMP_CORRECTION_ATTR} :
          \E v \in SaswellDPValues(a) : SaswellReport(SaswellDev, a, v)
    /\ UNCHANGED <<nreports, globals>>

SpecSeeded == InitSeeded /\ [][NextSeeded]_vars

----------------------------------------------------------------------------
(* The Zonnsmart thermostat subsystem *)

NextZonnsmart ==
    /\ \E a \in ZonnsmartThermostatDPs : \E v \in ZonnsmartDPValues(a) :
          ZonnsmartReport(ZonnsmartDev, a, v)
    /\ UNCHANGED <<nreports, globals>>

SpecZonnsmart == Init /\ [][NextZonnsmart]_vars

----------------------------------------------------------------------------
(* Every datapoint of both devices, in runs of at most MaxReports reports *)

ReportAnySaswell ==
    /\ nreports < MaxReports
    /\ nreports' = nreports + 1
    /\ UNCHANGED globals
    /\ \E a \in SaswellDPs : \E v \in SaswellDPValues(a) :
          SaswellReport(SaswellDev, a, v)

ReportAnyZonnsmart ==
    /\ nreports < MaxReports
    /\ nreports' = nreports + 1
    /\ UNCHANGED globals
    /\ \E a \in ZonnsmartDPs : \E v \in ZonnsmartDPValues(a) :
          ZonnsmartReport(ZonnsmartDev, a, v)

NextReports == ReportAnySaswell \/ ReportAnyZonnsmart

SpecReports == Init /\ [][NextReports]_vars

----------------------------------------------------------------------------
(* Consecutive writes of one Saswell device, on a fresh device and on one    *)
(* whose sequence counter is about to wrap around.                           *)

\* a device that has already issued 256 - MaxSeq frames
InitNearWrap ==
    /\ attr_cache = [d \in AllDevices |-> Constructed(d)]
    /\ updates = <<>>
    /\ raised = <<>>
    /\ outbound = <<>>
    /\ seq = [d \in AllDevices |-> IF d = SaswellDev THEN 256 - MaxSeq ELSE 0]
    /\ result = None
    /\ lastOp = NoOp
    /\ transport = None
    /\ nreports = 0
    /\ via = None
    /\ Registered(OneOfEach)

NextSequence == WriteThermostat \/ WriteHelper

SpecSequence == (Init \/ InitNearWrap) /\ [][NextSequence]_vars

----------------------------------------------------------------------------
(* Cluster commands after target temperature and helper reports *)

\* the helpers whose on/off datapoint is reported in the command runs
ReportedHelpers == {"child_lock", "away_mode"}

\* setpoint raise/lower amounts, in steps of 0.1 degree
OffsetVals == {-10, 5, 20}

ReportForCommands ==
    /\ \E a \in {SASWELL_TARGET_TEMP_ATTR} \cup {SaswellHelperDP[h] : h \in ReportedHelpers} :
          \E v \in SaswellDPValues(a) : SaswellReport(SaswellDev, a, v)
    /\ UNCHANGED <<nreports, globals>>

CommandThermostat ==
    /\ \E c \in {0, 1, 2} : \E mode \in {0, 1, 2} : \E o \in OffsetVals :
          SaswellThermostatCommand(SaswellDev, c, mode, o)
    /\ UNCHANGED <<nreports, globals>>

CommandHelper ==
    /\ \E h \in SaswellHelpers : \E c \in 0..3 : \E st \in TransportStatuses :
          SaswellHelperCommand(SaswellDev, h, c, st)
    /\ UNCHANGED <<nreports, globals>>

CommandWindow ==
    /\ \E c \in 0..3 : \E st \in TransportStatuses :
          MoesWindowDetection_command(MoesDev, c, st)
    /\ UNCHANGED <<nreports, globals>>

NextCommands == ReportForCommands \/ CommandThermostat \/ CommandHelper \/ CommandWindow

SpecCommands == Init /\ [][NextCommands]_vars

----------------------------------------------------------------------------
(* Moes schedule reports and writes of single schedule fields *)

\* a reported schedule: slot n switches at hour 3 * n + 4, minute 5 * n, to the
\* temperature base + n; the hour byte of slot 'flagged' carries the top bits 'flags'
SchedulePayload(base, flagged, flags) ==
    [k \in 1..18 |->
        LET n == 6 - ((k - 1) \div 3)
        IN  IF (k - 1) % 3 = 0 THEN base + n
            ELSE IF (k - 1) % 3 = 1 THEN 5 * n
            ELSE 3 * n + 4 + (IF n = flagged THEN flags ELSE 0)]

\* plain schedules and schedules whose hour bytes carry the current-schedule
\* indicator (bit 6 or bit 7)
SchedulePayloads ==
    {SchedulePayload(MinTemp, f[1], f[2]) : f \in {<<1, 0>>, <<1, 64>>, <<4, 128>>}}
        \cup {SchedulePayload(MinTemp - 10, 1, 0)}

\* the values written to a schedule field
ScheduleWriteValues(field) ==
    IF field = "temperature" THEN {100 * MinTemp - 50, 100 * MinTemp + 150}
    ELSE IF field = "minute" THEN {45} ELSE {23}

\* handle_cluster_request -> MoesManufCluster._update_attribute(attrid, value)
MoesReport(dev, attrid, value) ==
    LET s == MoesManufCluster_update_attribute(HandlerState(attr_cache[dev]), attrid, value)
    IN  /\ attr_cache' = [attr_cache EXCEPT ![dev] = s.cache]
        /\ Finish(s, [op |-> "report", dev |-> dev, cluster |-> "tuya_manufacturer",
                      attr |-> attrid, value |-> value, new_attrs |-> None])

\* TuyaThermostatCluster.write_attributes on the Moes thermostat, one schedule field
MoesScheduleWrite(dev, attribute, value) ==
    LET new_attrs == MoesThermostat_map_schedule(attr_cache[dev]["thermostat"],
                                                 attribute, value)
    IN  /\ CanSend(dev)
        /\ lastOp' = [op |-> "write", dev |-> dev, cluster |-> "thermostat",
                      attr |-> attribute, value |-> value, new_attrs |-> new_attrs]
        /\ updates' = <<>>
        /\ raised' = <<>>
        /\ seq' = [seq EXCEPT ![dev] = NextSeq(@)]
        /\ outbound' = <<ListDataFrame(NextSeq(seq[dev]), new_attrs[1])>>
        /\ result' = Some(<<"SUCCESS">>)
        /\ transport' = Some("SUCCESS")
        /\ via' = Some(dev)
        /\ UNCHANGED attr_cache

ReportSchedule ==
    /\ \E day \in ScheduleDays : \E P \in SchedulePayloads :
          MoesReport(MoesDev, MoesScheduleDP(day), P)
    /\ UNCHANGED <<nreports, globals>>

WriteScheduleField ==
    /\ \E day \in ScheduleDays : \E a \in ScheduleAttrs(day) :
          \E v \in ScheduleWriteValues(a[3]) : MoesScheduleWrite(MoesDev, a, v)
    /\ UNCHANGED <<nreports, globals>>

NextMoes == ReportSchedule \/ WriteScheduleField

SpecMoes == Init /\ [][NextMoes]_vars

----------------------------------------------------------------------------
(* Writes and commands on the Zonnsmart on/off helpers and on the Moes       *)
(* window detection cluster                                                  *)

\* the longest write, in records
MaxRecords == 2

\* the writes of at most MaxRecords records over a set of records: the records of
\* the attributes dict in its order, each attribute named once
RecordSeqs(R) ==
    {r \in UNION {[1..n -> R] : n \in 0..MaxRecords} :
        \A i, j \in 1..Len(r) : r[i][1] = r[j][1] => i = j}

\* records written to an on/off helper: on_off has a rule, the others have none
HelperRecords == ({"on_off"} \X {0, 1}) \cup ({"on_time", "off_wait_time"} \X {0})

\* records written to the Moes window detection cluster
WindowRecords ==
    {<<"on_off", 1>>, <<"window_detection_temperature", 100 * MinTemp + 50>>,
     <<"on_time", 0>>, <<"off_wait_time", 0>>}

\* reported window detection settings: [minutes, temperature, on/off]
WindowReports == {<<15, MaxTemp, 0>>}

\* the Zonnsmart helpers written and commanded in these runs
WrittenZonnsmartHelpers == {"child_lock", "boost"}

ReportHelperDP ==
    /\ \/ \E v \in ZonnsmartDPValues(ZONNSMART_BOOST_TIME_ATTR) :
             ZonnsmartReport(ZonnsmartDev, ZONNSMART_BOOST_TIME_ATTR, v)
       \/ \E v \in WindowReports : MoesReport(MoesDev, MOES_WINDOW_DETECT_ATTR, v)
    /\ UNCHANGED <<nreports, globals>>

WriteZonnsmartHelper ==
    /\ \E h \in WrittenZonnsmartHelpers : \E records \in RecordSeqs(HelperRecords) :
          \E st \in TransportStatuses :
             ZONNSMARTHelperOnOff_write_attributes(ZonnsmartDev, h, records, st)
    /\ UNCHANGED <<nreports, globals>>

WriteMoesWindow ==
    /\ \E records \in RecordSeqs(WindowRecords) : \E st \in TransportStatuses :
          MoesWindowDetection_write_attributes(MoesDev, records, st)
    /\ UNCHANGED <<nreports, globals>>

CommandZonnsmartHelper ==
    /\ \E h \in WrittenZonnsmartHelpers : \E c \in 0..3 : \E st \in TransportStatuses :
          ZONNSMARTHelperOnOff_command(ZonnsmartDev, h, c, st)
    /\ UNCHANGED <<nreports, globals>>

CommandMoesWindow ==
    /\ \E c \in 0..3 : \E st \in TransportStatuses :
          MoesWindowDetection_command(MoesDev, c, st)
    /\ UNCHANGED <<nreports, globals>>

NextHelperWrites ==
    \/ ReportHelperDP
    \/ WriteZonnsmartHelper
    \/ WriteMoesWindow
    \/ CommandZonnsmartHelper
    \/ CommandMoesWindow

SpecHelperWrites == Init /\ [][NextHelperWrites]_vars

----------------------------------------------------------------------------
(* Calibration reports and writes on the temperature offset clusters *)

\* a numeric attribute id outside the analog output cluster
InvalidAttributeId == "0xFFFF"

\* the writes on an offset cluster: present_value, an attribute without a rule and
\* an invalid attribute id
OffsetWrites ==
    ({"present_value"} \X CalVals) \cup {<<"resolution", 2>>, <<InvalidAttributeId, 0>>}

ReportCalibration ==
    /\ \/ \E v \in CalVals : SaswellReport(SaswellDev, SASWELL_TEMP_CORRECTION_ATTR, v)
       \/ \E v \in CalVals :
             ZonnsmartReport(ZonnsmartDev, ZONNSMART_TEMPERATURE_CALIBRATION_ATTR, 10 * v)
    /\ UNCHANGED <<nreports, globals>>

WriteSaswellOffset ==
    /\ \E w \in OffsetWrites : \E st \in TransportStatuses :
          SaswellTemperatureOffset_write_attributes(SaswellDev, w[1], w[2], st)
    /\ UNCHANGED <<nreports, globals>>

WriteZonnsmartOffset ==
    /\ \E w \in OffsetWrites : \E st \in TransportStatuses :
          ZONNSMARTTemperatureOffset_write_attributes(ZonnsmartDev, w[1], w[2], st)
    /\ UNCHANGED <<nreports, globals>>

NextOffsets == ReportCalibration \/ WriteSaswellOffset \/ WriteZonnsmartOffset

SpecOffsets == Init /\ [][NextOffsets]_vars

----------------------------------------------------------------------------
(* Saswell on/off helper writes and commands whose outbound write completes  *)
(* with either status                                                        *)

ReportHelper ==
    /\ \E h \in ReportedHelpers : \E v \in SaswellDPValues(SaswellHelperDP[h]) :
          SaswellReport(SaswellDev, SaswellHelperDP[h], v)
    /\ UNCHANGED <<nreports, globals>>

WriteHelperVia ==
    /\ \E h \in SaswellHelpers : \E w \in SaswellHelperWrites :
          \E st \in TransportStatuses :
             SaswellHelperWriteVia(SaswellDev, h, w[1], w[2], st)
    /\ UNCHANGED <<nreports, globals>>

NextHelperTransport == ReportHelper \/ WriteHelperVia \/ CommandHelper

SpecHelperTransport == Init /\ [][NextHelperTransport]_vars

----------------------------------------------------------------------------
(* Two devices of a family, constructed in any order, and writes on their    *)
(* helper clusters                                                           *)

\* every order in which the devices of the fleet can be constructed
ConstructionOrders ==
    {o \in [1..Cardinality(Fleet) -> Fleet] : \A i, j \in DOMAIN o : o[i] = o[j] => i = j}

InitFleet ==
    /\ attr_cache = [d \in Fleet |-> Constructed(d)]
    /\ \E order \in ConstructionOrders : Registered(order)
    /\ updates = <<>>
    /\ raised = <<>>
    /\ outbound = <<>>
    /\ seq = [d \in Fleet |-> 0]
    /\ result = None
    /\ lastOp = NoOp
    /\ transport = None
    /\ nreports = 0
    /\ via = None

WriteFleetSaswellHelper ==
    /\ \E d \in SaswellDevices : \E h \in SaswellHelpers : \E v \in {0, 1} :
          SaswellHelperWrite(d, h, "on_off", v)
    /\ UNCHANGED <<nreports, globals>>

WriteFleetSaswellOffset ==
    /\ \E d \in SaswellDevices : \E v \in CalVals :
          SaswellTemperatureOffset_write_attributes(d, "present_value", v, "SUCCESS")
    /\ UNCHANGED <<nreports, globals>>

NextFleetSaswell == WriteFleetSaswellHelper \/ WriteFleetSaswellOffset

SpecFleetSaswell == InitFleet /\ [][NextFleetSaswell]_vars

\* opened-window temperatures written, in degrees
WindowTempWrites == {MinTemp - 10, MinTemp - 5}

WriteFleetZonnsmartHelper ==
    /\ \E d \in ZonnsmartDevices : \E h \in ZonnsmartHelpers : \E v \in {0, 1} :
          ZONNSMARTHelperOnOff_write_attributes(d, h, <<<<"on_off", v>>>>, "SUCCESS")
    /\ UNCHANGED <<nreports, globals>>

WriteFleetZonnsmartWindowTemp ==
    /\ \E d \in ZonnsmartDevices : \E v \in WindowTempWrites :
          ZONNSMARTWindowOpenedTemp_write_attributes(d, "present_value", v, "SUCCESS")
    /\ UNCHANGED <<nreports, globals>>

NextFleetZonnsmart == WriteFleetZonnsmartHelper \/ WriteFleetZonnsmartWindowTemp

SpecFleetZonnsmart == InitFleet /\ [][NextFleetZonnsmart]_vars

----------------------------------------------------------------------------
(* Properties *)

\* the Saswell and Zonnsmart thermostat caches
Th == attr_cache[SaswellDev]["thermostat"]
ZTh == attr_cache[ZonnsmartDev]["thermostat"]

\* the thermostat updates of the last operation, in order
ThermostatUpdates == SelectSeq(updates, LAMBDA u : u[1] = "thermostat")

\* the last operation was a Saswell report of the given datapoints
SaswellReported(dps) ==
    /\ lastOp.op = "report"
    /\ lastOp.dev = SaswellDev
    /\ lastOp.attr \in dps

TempReported == SaswellReported({SASWELL_ROOM_TEMP_ATTR, SASWELL_TARGET_TEMP_ATTR})

BothCached(cache) ==
    {"local_temperature", "occupied_heating_setpoint"} \subseteq DOMAIN cache

InHeat == Get(Th, "system_mode") = Some("Heat")

Running(cache, mode, state) ==
    /\ Get(cache, "running_mode") = Some(mode)
    /\ Get(cache, "running_state") = Some(state)

\* the last operation published the given running mode and state, in that order
PublishedRunning(mode, state) ==
    /\ Len(ThermostatUpdates) >= 2
    /\ ThermostatUpdates[Len(ThermostatUpdates) - 1] = <<"thermostat", "running_mode", mode>>
    /\ ThermostatUpdates[Len(ThermostatUpdates)] = <<"thermostat", "running_state", state>>

\* the last operation published a running mode or a running state
PublishedAnyRunning ==
    \E i \in 1..Len(ThermostatUpdates) :
        ThermostatUpdates[i][2] \in {"running_mode", "running_state"}

\* a temperature report in heat mode met the given cached temperatures
HeatReportAt(current, target) ==
    /\ TempReported
    /\ InHeat
    /\ Get(Th, "local_temperature") = Some(current)
    /\ Get(Th, "occupied_heating_setpoint") = Some(target)

C2_Comparator ==
    (TempReported /\ InHeat /\ BothCached(Th)) =>
        /\ Th[SaswellDirectMapped[lastOp.attr]] = 10 * lastOp.value
        /\ IF Th["local_temperature"] >= Th["occupied_heating_setpoint"] + 2
           THEN Running(Th, "Off", "Idle") /\ PublishedRunning("Off", "Idle")
           ELSE /\ Running(Th, "Heat", "Heat_State_On")
                /\ PublishedRunning("Heat", "Heat_State_On")

\* current = target, which yields heating
C2_Witness ==
    /\ TempReported /\ InHeat /\ BothCached(Th)
    /\ Th["local_temperature"] = Th["occupied_heating_setpoint"]
    /\ Running(Th, "Heat", "Heat_State_On")

\* C3: when the cached system_mode is not Heat (or was never observed), a room or
\* target temperature report publishes running_mode Off and running_state Idle
\* whatever the two temperatures are.
C3_NotHeatForcesIdle ==
    (TempReported /\ ~InHeat) =>
        Running(Th, "Off", "Idle") /\ PublishedRunning("Off", "Idle")

\* the device is off and the room is colder than the target
C3_Witness ==
    /\ TempReported /\ Get(Th, "system_mode") = Some("Off") /\ BothCached(Th)
    /\ Th["local_temperature"] < Th["occupied_heating_setpoint"]
    /\ Running(Th, "Off", "Idle")

\* the last operation was a Zonnsmart current or target temperature report
ZonnsmartTempReported ==
    /\ lastOp.op = "report"
    /\ lastOp.dev = ZonnsmartDev
    /\ lastOp.attr \in {ZONNSMART_TEMPERATURE_ATTR, ZONNSMART_TARGET_TEMP_ATTR}

\* C4: while the Zonnsmart system_mode is Off, a current or target temperature
\* report leaves the running state Idle whatever the two temperatures are.
C4_OffForcesIdle ==
    (ZonnsmartTempReported /\ Get(ZTh, "system_mode") = Some("Off") /\ BothCached(ZTh))
        => Running(ZTh, "Off", "Idle")

\* C5 as stated: a temperature report publishes a running mode or state only when
\* both temperatures have been observed.
C5_Original == (TempReported /\ PublishedAnyRunning) => BothCached(Th)

\* C5 as amended: in heat mode a temperature report publishes a running mode or
\* state only when both temperatures have been observed; outside heat mode it
\* publishes Off/Idle whether or not they have.
C5_Amended ==
    /\ (TempReported /\ PublishedAnyRunning) => (~InHeat \/ BothCached(Th))
    /\ (TempReported /\ ~InHeat) => PublishedRunning("Off", "Idle")

\* heat mode, one temperature missing: nothing is published
C5_Witness ==
    /\ TempReported /\ InHeat /\ ~BothCached(Th)
    /\ ~PublishedAnyRunning

\* C6: when system_mode is not Heat or both temperatures are cached, a room or
\* target temperature report publishes exactly three thermostat updates: the mapped
\* temperature attribute (value x10), then running_mode, then running_state.
C6_ThreeUpdatesInOrder ==
    (TempReported /\ (~InHeat \/ BothCached(Th))) =>
        /\ Len(ThermostatUpdates) = 3
        /\ ThermostatUpdates[1] =
               <<"thermostat",
                 IF lastOp.attr = SASWELL_ROOM_TEMP_ATTR
                 THEN "local_temperature" ELSE "occupied_heating_setpoint",
                 10 * lastOp.value>>
        /\ ThermostatUpdates[2][2] = "running_mode"
        /\ ThermostatUpdates[3][2] = "running_state"

C6_Witness ==
    /\ TempReported /\ InHeat /\ BothCached(Th)
    /\ Len(ThermostatUpdates) = 3
    /\ ThermostatUpdates[3] = <<"thermostat", "running_state", "Heat_State_On">>

\* C7: an on/off report with value 1 publishes exactly system_mode Heat,
\* running_mode Heat, running_state Heat_State_On, in that order; with any other
\* value exactly system_mode Off, running_mode Off, running_state Idle.
C7_OnOffUpdates ==
    SaswellReported({SASWELL_ONOFF_ATTR}) =>
        ThermostatUpdates =
            IF lastOp.value = 1
            THEN << <<"thermostat", "system_mode", "Heat">>,
                    <<"thermostat", "running_mode", "Heat">>,
                    <<"thermostat", "running_state", "Heat_State_On">> >>
            ELSE << <<"thermostat", "system_mode", "Off">>,
                    <<"thermostat", "running_mode", "Off">>,
                    <<"thermostat", "running_state", "Idle">> >>

\* a value that is neither 0 nor 1 switches the device off
C7_Witness ==
    /\ SaswellReported({SASWELL_ONOFF_ATTR})
    /\ lastOp.value = 2
    /\ Get(Th, "system_mode") = Some("Off")

\* C8: after construction and after any sequence of inbound reports the Saswell
\* and the Zonnsmart thermostat caches hold min_heat_setpoint_limit = 500 and
\* max_heat_setpoint_limit = 3000.
C8_SetpointLimits ==
    \A d \in Devices :
        /\ Get(attr_cache[d]["thermostat"], "min_heat_setpoint_limit") = Some(500)
        /\ Get(attr_cache[d]["thermostat"], "max_heat_setpoint_limit") = Some(3000)

\* both devices have had a target temperature reported
C8_Witness ==
    /\ nreports = MaxReports
    /\ \A d \in Devices : "occupied_heating_setpoint" \in DOMAIN attr_cache[d]["thermostat"]

\* r is round(v / 10): the nearest integer, the even one of two equally near
IsRound10(r, v) ==
    /\ 10 * r - v \in -5..5
    /\ (10 * r - v \in {-5, 5}) => r % 2 = 0

\* the last operation was a write of the attribute on the cluster of the Saswell device
Wrote(cluster, attribute) ==
    /\ lastOp.op = "write"
    /\ lastOp.dev = SaswellDev
    /\ lastOp.cluster = cluster
    /\ lastOp.attr = attribute

\* new_attrs is the one-entry dict {dp: r} with r = round(v / 10)
MapsRounded(new_attrs, dp, v) ==
    /\ new_attrs # None
    /\ DOMAIN new_attrs[1] = {dp}
    /\ IsRound10(new_attrs[1][dp], v)

\* C9: the Saswell reverse mapping returns exactly one datapoint entry per supported
\* attribute: occupied_heating_setpoint v -> {0x0267: round(v/10)},
\* local_temperature_calibration v -> {0x021B: round(v/10)}, system_mode Off ->
\* {0x0165: 0}, Heat -> {0x0165: 1}, and on_off v on a helper -> its own datapoint.
C9_ReverseMapping ==
    /\ Wrote("thermostat", "occupied_heating_setpoint")
           => MapsRounded(lastOp.new_attrs, 615, lastOp.value)
    /\ Wrote("thermostat", "local_temperature_calibration")
           => MapsRounded(lastOp.new_attrs, 539, lastOp.value)
    /\ (Wrote("thermostat", "system_mode") /\ lastOp.value = "Off")
           => lastOp.new_attrs = Some(Dict1(357, 0))
    /\ (Wrote("thermostat", "system_mode") /\ lastOp.value = "Heat")
           => lastOp.new_attrs = Some(Dict1(357, 1))
    /\ Wrote("window_detection", "on_off") => lastOp.new_attrs = Some(Dict1(264, lastOp.value))
    /\ Wrote("child_lock", "on_off") => lastOp.new_attrs = Some(Dict1(296, lastOp.value))
    /\ Wrote("anti_freeze", "on_off") => lastOp.new_attrs = Some(Dict1(266, lastOp.value))
    /\ Wrote("limescale_protection", "on_off")
           => lastOp.new_attrs = Some(Dict1(386, lastOp.value))
    /\ Wrote("schedule_mode", "on_off") => lastOp.new_attrs = Some(Dict1(364, lastOp.value))
    /\ Wrote("away_mode", "on_off") => lastOp.new_attrs = Some(Dict1(362, lastOp.value))

\* a setpoint half way between two datapoint values
C9_Witness ==
    /\ Wrote("thermostat", "occupied_heating_setpoint")
    /\ lastOp.value % 10 = 5
    /\ lastOp.new_attrs # None

\* the last write issued exactly one set_data frame on the manufacturer cluster for
\* the datapoint and returned a single SUCCESS record
OneSetData(dp) ==
    /\ Len(outbound) = 1
    /\ outbound[1].cluster = 61184
    /\ outbound[1].command_id = 0
    /\ outbound[1].dp = dp
    /\ result = Some(<<"SUCCESS">>)

\* C10: a single-attribute write with a registered rule on the Saswell thermostat
\* issues exactly one set_data request on cluster 0xEF00: occupied_heating_setpoint v
\* -> DP 0x0267 with the 4 bytes of round(v/10), most significant first; system_mode
\* Off / Heat -> DP 0x0165 with the 1 byte 0 / 1; and returns one SUCCESS record.
C10_OneSetDataPerWrite ==
    /\ Wrote("thermostat", "occupied_heating_setpoint") =>
           /\ OneSetData(615)
           /\ Len(outbound[1].data) = 4
           /\ \A i \in 1..3 : outbound[1].data[i] = 0
           /\ IsRound10(outbound[1].data[4], lastOp.value)
    /\ (Wrote("thermostat", "system_mode") /\ lastOp.value = "Off") =>
           OneSetData(357) /\ outbound[1].data = <<0>>
    /\ (Wrote("thermostat", "system_mode") /\ lastOp.value = "Heat") =>
           OneSetData(357) /\ outbound[1].data = <<1>>

C10_Witness ==
    /\ Wrote("thermostat", "occupied_heating_setpoint")
    /\ lastOp.value = 10 * MinTemp + 16
    /\ Len(outbound) = 1
    /\ outbound[1].data = <<0, 0, 0, MinTemp + 2>>

Commanded(cluster, command_id) ==
    /\ lastOp.op = "command"
    /\ lastOp.dev = SaswellDev
    /\ lastOp.cluster = cluster
    /\ lastOp.attr = command_id

\* C12: the setpoint raise/lower command (0x0000) in heat mode with offset o issues
\* exactly one write of DP 0x0267 whose value is T + o, T being the cached
\* occupied_heating_setpoint / 10; issued right after a target temperature report,
\* T is the value that report carried.
C12_RaiseLowerFromLatestReport ==
    [][(/\ lastOp'.op = "command"
        /\ lastOp'.cluster = "thermostat"
        /\ lastOp'.attr = 0
        /\ lastOp'.value[1] = 0
        /\ "occupied_heating_setpoint" \in DOMAIN Th) =>
           /\ Len(outbound') = 1
           /\ outbound'[1].dp = 615
           /\ outbound'[1].cluster = 61184
           /\ 10 * outbound'[1].data[4] = Th["occupied_heating_setpoint"] + 10 * lastOp'.value[2]
           /\ \A i \in 1..3 : outbound'[1].data[i] = 0
           /\ (lastOp.op = "report" /\ lastOp.attr = 615) =>
                  outbound'[1].data[4] = lastOp.value + lastOp'.value[2]]_vars

\* a second target report replaced the first before the command
C12_Witness ==
    /\ Commanded("thermostat", 0)
    /\ lastOp.value = <<0, 20>>
    /\ Len(outbound) = 1
    /\ outbound[1].sequence = 2
    /\ Get(Th, "occupied_heating_setpoint") = Some(10 * MaxTemp)
    /\ outbound[1].data = <<0, 0, 0, MaxTemp + 20>>

\* the Moes thermostat and manufacturer cluster caches
MTh == attr_cache[MoesDev]["thermostat"]
MManuf == attr_cache[MoesDev]["tuya_manufacturer"]

\* the last operation was a write of one schedule field of the day
WroteSchedule(day) ==
    /\ lastOp.op = "write"
    /\ lastOp.dev = MoesDev
    /\ lastOp.cluster = "thermostat"
    /\ lastOp.attr[1] = day

\* the position of the written field in [temp6, minute6, hour6, ..., temp1, minute1, hour1]
WrittenPos ==
    3 * (6 - lastOp.attr[2]) +
        (IF lastOp.attr[3] = "temperature" THEN 1
         ELSE IF lastOp.attr[3] = "minute" THEN 2 ELSE 3)

\* the last write mapped to exactly one datapoint, the day's schedule (0x70 / 0x71),
\* with 18 elements
OneScheduleFrame(day) ==
    /\ lastOp.new_attrs # None
    /\ DOMAIN lastOp.new_attrs[1] = {IF day = "workday" THEN 112 ELSE 113}
    /\ DOMAIN lastOp.new_attrs[1][IF day = "workday" THEN 112 ELSE 113] = 1..18

\* the 18 elements handed to the manufacturer cluster by the last schedule write
SentSchedule == lastOp.new_attrs[1][MoesScheduleDP(lastOp.attr[1])]

\* C13 as stated: after a schedule report with payload P, writing one schedule field
\* yields one schedule datapoint equal to P in the 17 positions not written.
C13_Original ==
    \A day \in ScheduleDays :
        (WroteSchedule(day) /\ MoesScheduleDP(day) \in DOMAIN MManuf) =>
            /\ OneScheduleFrame(day)
            /\ \A k \in (1..18) \ {WrittenPos} :
                   SentSchedule[k] = MManuf[MoesScheduleDP(day)][k]

\* C13 as amended: in the 17 positions not written the outgoing datapoint equals P
\* in the temperature and minute positions and P with the two top bits cleared
\* (byte & 0x3F) in the hour positions.
C13_Amended ==
    \A day \in ScheduleDays :
        (WroteSchedule(day) /\ MoesScheduleDP(day) \in DOMAIN MManuf) =>
            /\ OneScheduleFrame(day)
            /\ \A k \in (1..18) \ {WrittenPos} :
                   SentSchedule[k] =
                       IF k % 3 = 0 THEN MManuf[MoesScheduleDP(day)][k] % 64
                       ELSE MManuf[MoesScheduleDP(day)][k]

\* the reported payload carried a flagged hour byte, which goes out without the flag
C13_Witness ==
    /\ WroteSchedule("workday")
    /\ MoesScheduleDP("workday") \in DOMAIN MManuf
    /\ \E k \in (1..18) \ {WrittenPos} :
          /\ MManuf[MoesScheduleDP("workday")][k] >= 64
          /\ SentSchedule[k] = MManuf[MoesScheduleDP("workday")][k] % 64

\* r is round(v / 100): the nearest integer, the even one of two equally near
IsRound100(r, v) ==
    /\ 100 * r - v \in -50..50
    /\ (100 * r - v \in {-50, 50}) => r % 2 = 0

\* C14: with no schedule report observed, writing one schedule field succeeds and
\* yields 18 elements ordered [temp6, minute6, hour6, ..., temp1, minute1, hour1]:
\* the defaults 15/20 degrees at 22:00, 17:30, 12:30, 11:30, 8:00, 6:00 everywhere but
\* at the written position, which holds the new value (a temperature as round(v/100)).
C14_DefaultsWhenUnobserved ==
    \A day \in ScheduleDays :
        (WroteSchedule(day) /\ ScheduleAttrs(day) \cap DOMAIN MTh = {}) =>
            /\ OneScheduleFrame(day)
            /\ \A k \in (1..18) \ {WrittenPos} :
                   SentSchedule[k] =
                       <<15, 0, 22, 20, 30, 17, 15, 30, 12, 15, 30, 11, 15, 0, 8, 20, 0, 6>>[k]
            /\ IF lastOp.attr[3] = "temperature"
               THEN IsRound100(SentSchedule[WrittenPos], lastOp.value)
               ELSE SentSchedule[WrittenPos] = lastOp.value

\* the temperature of weekend slot 5 written on a device that never reported
C14_Witness ==
    /\ WroteSchedule("weekend")
    /\ DOMAIN MTh = {}
    /\ lastOp.attr = <<"weekend", 5, "temperature">>
    /\ result = Some(<<"SUCCESS">>)
    /\ SentSchedule[4] # 20
    /\ SentSchedule[5] = 30

\* C15: a write to a Saswell on/off helper cluster of an attribute other than on_off
\* returns a FAILURE status record and issues no outbound frame.
C15_UnsupportedHelperWriteFails ==
    (/\ lastOp.op = "write"
     /\ lastOp.dev = SaswellDev
     /\ lastOp.cluster \in SaswellHelpers
     /\ lastOp.attr # "on_off") =>
        /\ outbound = <<>>
        /\ result = Some(<<"FAILURE">>)

\* the attributes the cluster of the last write has a translation rule for
RulesOf(op) ==
    IF op.dev = MoesDev /\ op.cluster = "window_detection" THEN MoesWindowRules
    ELSE {"on_off"}

\* op is a write of records on the Moes window detection cluster or on a Zonnsmart
\* on/off helper
RecordWrite(op) ==
    /\ op.op = "write"
    /\ \/ op.dev = MoesDev /\ op.cluster = "window_detection"
       \/ op.dev = ZonnsmartDev /\ op.cluster \in ZonnsmartHelpers

\* no record of the write names an attribute with a rule
OnlyUnruled(op) == \A i \in 1..Len(op.attr) : op.attr[i][1] \notin RulesOf(op)

\* C16: a write on MoesWindowDetection or on a Zonnsmart on/off helper whose records
\* all name attributes without a rule returns one FAILURE record per requested
\* attribute, sends nothing and changes no cache; a write with no records returns a
\* single SUCCESS and sends nothing.
C16_UnruledRecordsFail ==
    [][(RecordWrite(lastOp') /\ OnlyUnruled(lastOp')) =>
           /\ outbound' = <<>>
           /\ seq' = seq
           /\ attr_cache' = attr_cache
           /\ result' = IF lastOp'.attr = <<>>
                         THEN Some(<<"SUCCESS">>)
                         ELSE Some([i \in 1..Len(lastOp'.attr) |-> "FAILURE"])]_vars

C16_Witness ==
    /\ RecordWrite(lastOp)
    /\ lastOp.dev = MoesDev
    /\ Len(lastOp.attr) = MaxRecords
    /\ OnlyUnruled(lastOp)
    /\ "on_off" \in DOMAIN attr_cache[MoesDev]["window_detection"]
    /\ result = Some([i \in 1..MaxRecords |-> "FAILURE"])

\* op is a write on the temperature offset cluster of dev
OffsetWrite(op, dev) ==
    /\ op.op = "write"
    /\ op.dev = dev
    /\ op.cluster = "analog_output"

\* C17: a write on the Saswell temperature offset cluster naming an attribute without
\* a translation rule (any attribute but present_value, or an invalid attribute id)
\* is reported as a failure, changes no cached attribute and sends no datapoint.
C17_UnruledOffsetWriteFails ==
    [][(OffsetWrite(lastOp', SaswellDev) /\ lastOp'.attr # "present_value") =>
           /\ result' # Some(<<"SUCCESS">>)
           /\ outbound' = <<>>
           /\ attr_cache' = attr_cache]_vars

\* C19: a write of present_value on the Saswell or Zonnsmart temperature offset
\* cluster leaves the cached present_value alone until an inbound calibration report
\* confirms it; after a failed outbound write the cache holds the last reported value.
C19_OffsetCacheWaitsForReport ==
    [][\A d \in Devices :
          (OffsetWrite(lastOp', d) /\ lastOp'.attr = "present_value") =>
              attr_cache'[d]["analog_output"] = attr_cache[d]["analog_output"]]_vars

\* the command is one its cluster does not implement
Unimplemented(op) ==
    /\ op.op = "command"
    /\ IF op.cluster = "thermostat" THEN op.attr # 0 ELSE op.attr \notin {0, 1, 2}

\* C18: a command the synthetic cluster does not implement (a thermostat command
\* other than setpoint raise/lower 0x0000, an on/off helper command other than off
\* 0x00, on 0x01 and toggle 0x02) returns UNSUP_CLUSTER_COMMAND and sends nothing.
C18_UnimplementedCommand ==
    [][Unimplemented(lastOp') =>
           /\ result' \in {Some(<<kind, "UNSUP_CLUSTER_COMMAND">>) :
                               kind \in {"Default_Response", "list"}}
           /\ outbound' = <<>>
           /\ seq' = seq
           /\ attr_cache' = attr_cache]_vars

\* an unknown command on a helper whose on/off state has been reported
C18_Witness ==
    /\ Commanded("child_lock", 3)
    /\ "on_off" \in DOMAIN attr_cache[SaswellDev]["child_lock"]
    /\ result = Some(<<"list", "UNSUP_CLUSTER_COMMAND">>)
    /\ outbound = <<>>

\* the last operation was a write or a command on a Saswell on/off helper that sent
\* a datapoint write
HelperSent ==
    /\ lastOp.op \in {"write", "command"}
    /\ lastOp.dev = SaswellDev
    /\ lastOp.cluster \in SaswellHelpers
    /\ transport # None

\* C20: when the manufacturer cluster's write issued for a Saswell on/off helper
\* write or on/off/toggle command completes with a status other than SUCCESS, the
\* helper's write_attributes, and so the command, reports a failure and not SUCCESS.
C20_FailedTransportReported ==
    (HelperSent /\ transport # Some("SUCCESS")) =>
        result \notin {Some(<<"SUCCESS">>), Some(<<"list", "SUCCESS">>)}

\* the last operation was a write on a helper cluster of a device of the family that
\* sent a datapoint
FleetWrite(devices, clusters) ==
    /\ lastOp.op = "write"
    /\ lastOp.dev \in devices
    /\ lastOp.cluster \in clusters
    /\ outbound # <<>>

\* C21: with two or more Saswell devices constructed in any order, a write on a
\* helper cluster (on/off helpers, temperature offset) of a device is issued through
\* that device's own manufacturer cluster, never through another device's.
C21_SaswellWritesThroughOwnCluster ==
    FleetWrite(SaswellDevices, SaswellHelpers \cup {"analog_output"}) =>
        via = Some(lastOp.dev)

\* a write on the first device after the second has written, whichever was
\* constructed last
C21_Witness ==
    /\ FleetWrite({SaswellDev}, SaswellHelpers)
    /\ via = Some(SaswellDev)
    /\ DOMAIN SaswellManufClusterSelf = SaswellDevices
    /\ seq[SaswellDev2] > 0
    /\ seq[SaswellDev] > 0

\* C22: with two or more Zonnsmart devices constructed in any order, a write on a
\* helper cluster (boost, child lock, online mode, opened-window temperature) of a
\* device is issued through that device's own manufacturer cluster, never through
\* another device's.
C22_ZonnsmartWritesThroughOwnCluster ==
    FleetWrite(ZonnsmartDevices, ZonnsmartHelpers \cup {"window_temperature"}) =>
        via = Some(lastOp.dev)

\* the updates of the last operation on the clusters of a set
UpdatesOn(clusters) == SelectSeq(updates, LAMBDA u : u[1] \in clusters)

\* op is a report of the datapoint from the Saswell device
ReportOf(op, attrid) ==
    /\ op.op = "report"
    /\ op.dev = SaswellDev
    /\ op.attr = attrid

\* C23: a report of one of the six Saswell on/off feature datapoints updates on_off
\* on exactly the corresponding helper cluster, once, and leaves the caches of the
\* other five helper clusters and of the thermostat unchanged.
C23_HelperReportTargetsOneCluster ==
    [][\A h \in SaswellHelpers :
          ReportOf(lastOp', SaswellHelperDP[h]) =>
              /\ UpdatesOn(SaswellHelpers \cup {"thermostat"})' =
                     <<<<h, "on_off", lastOp'.value>>>>
              /\ attr_cache'[SaswellDev][h] =
                     Put(attr_cache[SaswellDev][h], "on_off", lastOp'.value)
              /\ \A g \in (SaswellHelpers \ {h}) \cup {"thermostat"} :
                     attr_cache'[SaswellDev][g] = attr_cache[SaswellDev][g]]_vars

\* an away mode report after a child lock report
C23_Witness ==
    /\ ReportOf(lastOp, SASWELL_AWAY_MODE_ATTR)
    /\ lastOp.value = 1
    /\ UpdatesOn(SaswellHelpers) = <<<<"away_mode", "on_off", 1>>>>
    /\ Get(attr_cache[SaswellDev]["child_lock"], "on_off") = Some(0)
    /\ Get(attr_cache[SaswellDev]["away_mode"], "on_off") = Some(1)

\* the lock state the two clusters hold
LockStates ==
    <<Get(attr_cache[SaswellDev]["child_lock"], "on_off"),
      Get(attr_cache[SaswellDev]["thermostat_ui"], "keypad_lockout")>>

\* C24: a Saswell child lock report with value v updates the child lock on/off cluster
\* (on_off = v) and the user interface cluster (keypad_lockout = Level_1_lockout if v
\* else No_lockout), once each, so the two clusters agree on the lock state after any
\* sequence of child lock reports.
C24_ChildLockClustersAgree ==
    /\ LockStates \in {<<None, None>>, <<Some(0), Some("No_lockout")>>,
                        <<Some(1), Some("Level_1_lockout")>>}
    /\ ReportOf(lastOp, SASWELL_CHILD_LOCK_ATTR) =>
           /\ UpdatesOn({"child_lock"}) = <<<<"child_lock", "on_off", lastOp.value>>>>
           /\ UpdatesOn({"thermostat_ui"}) =
                  <<<<"thermostat_ui", "keypad_lockout",
                      IF lastOp.value = 0 THEN "No_lockout" ELSE "Level_1_lockout">>>>

\* a locking report
C24_Witness ==
    /\ ReportOf(lastOp, SASWELL_CHILD_LOCK_ATTR)
    /\ lastOp.value = 1
    /\ LockStates = <<Some(1), Some("Level_1_lockout")>>
    /\ Len(updates) = 3

\* C25: a Saswell temperature correction report with value v produces exactly one
\* thermostat update (local_temperature_calibration = 10 * v), exactly one update on
\* the temperature offset analog output (present_value = v) and no running_mode or
\* running_state update.
C25_CorrectionReportUpdates ==
    ReportOf(lastOp, SASWELL_TEMP_CORRECTION_ATTR) =>
        /\ UpdatesOn({"thermostat"}) =
               <<<<"thermostat", "local_temperature_calibration", 10 * lastOp.value>>>>
        /\ UpdatesOn({"analog_output"}) =
               <<<<"analog_output", "present_value", lastOp.value>>>>
        /\ Get(attr_cache[SaswellDev]["analog_output"], "present_value")
               = Some(lastOp.value)

\* a negative correction reported in heat mode with both temperatures cached
C25_Witness ==
    /\ ReportOf(lastOp, SASWELL_TEMP_CORRECTION_ATTR)
    /\ lastOp.value = -MaxCal
    /\ Get(Th, "local_temperature_calibration") = Some(-10 * MaxCal)
    /\ Len(updates) = 3

----------------------------------------------------------------------------
(* One device of any family receiving reports, the last of which may be      *)
(* delivered a second time.                                                  *)

\* handle_cluster_request -> SiterwellManufCluster._update_attribute(attrid, value)
SiterwellReport(dev, attrid, value) ==
    LET s == SiterwellManufCluster_update_attribute(
                 HandlerState(attr_cache[dev]), attrid, value)
    IN  /\ attr_cache' = [attr_cache EXCEPT ![dev] = s.cache]
        /\ Finish(s, [op |-> "report", dev |-> dev, cluster |-> "tuya_manufacturer",
                      attr |-> attrid, value |-> value, new_attrs |-> None])

\* the datapoints SiterwellManufCluster.attributes declares and their values
SiterwellDPs ==
    {SITERWELL_CHILD_LOCK_ATTR, SITERWELL_VALVE_STATE_ATTR, SITERWELL_TARGET_TEMP_ATTR,
     SITERWELL_TEMPERATURE_ATTR, SITERWELL_BATTERY_ATTR, SITERWELL_MODE_ATTR}

SiterwellDPValues(attrid) ==
    IF attrid \in DOMAIN SiterwellTemperatureAttrs THEN TempVals
    ELSE IF attrid = SITERWELL_MODE_ATTR THEN {0, 1, 2}
    ELSE IF attrid = SITERWELL_VALVE_STATE_ATTR THEN {0, 50}
    ELSE IF attrid = SITERWELL_BATTERY_ATTR THEN {0, 100}
    ELSE {0, 1}

\* the scalar datapoints of MoesManufCluster._update_attribute and their values
MoesScalarDPs ==
    DOMAIN MoesDirectMapped \cup
    {MOES_CHILD_LOCK_ATTR, MOES_AUTO_LOCK_ATTR, MOES_BATTERY_LOW_ATTR}

MoesDPValues(attrid) ==
    IF attrid \in {MOES_TEMPERATURE_ATTR, MOES_TARGET_TEMP_ATTR} THEN TempVals
    ELSE IF attrid = MOES_TEMP_CALIBRATION_ATTR THEN CalVals
    ELSE IF attrid = MOES_MODE_ATTR THEN {0, 1, 2, 4}
    ELSE IF attrid \in {MOES_AWAY_TEMP_ATTR, MOES_COMFORT_TEMP_ATTR, MOES_ECO_TEMP_ATTR,
                        MOES_MIN_TEMPERATURE_ATTR, MOES_MAX_TEMPERATURE_ATTR}
    THEN {MinTemp}
    ELSE IF attrid = MOES_VALVE_STATE_ATTR THEN {0, 50}
    ELSE IF attrid \in {MOES_AWAY_DAYS_ATTR, MOES_BOOST_TIME_ATTR} THEN {3}
    ELSE {0, 1}

\* the manufacturer cluster's _update_attribute of the family dev belongs to
ManufCluster_update_attribute(dev, s, attrid, value) ==
    IF dev \in SaswellDevices THEN SaswellManufCluster_update_attribute(s, attrid, value)
    ELSE IF dev \in ZonnsmartDevices
    THEN ZONNSMARTManufCluster_update_attribute(s, attrid, value)
    ELSE IF dev = SiterwellDev
    THEN SiterwellManufCluster_update_attribute(s, attrid, value)
    ELSE MoesManufCluster_update_attribute(s, attrid, value)

\* a further report to the device the run is about
FreshReport(dev) ==
    /\ nreports < MaxReports
    /\ lastOp.dev \in {"", dev}
    /\ nreports' = nreports + 1
    /\ UNCHANGED globals

FreshSaswell ==
    /\ FreshReport(SaswellDev)
    /\ \E a \in SaswellDPs : \E v \in SaswellDPValues(a) :
          SaswellReport(SaswellDev, a, v)

FreshZonnsmart ==
    /\ FreshReport(ZonnsmartDev)
    /\ \E a \in ZonnsmartDPs : \E v \in ZonnsmartDPValues(a) :
          ZonnsmartReport(ZonnsmartDev, a, v)

FreshSiterwell ==
    /\ FreshReport(SiterwellDev)
    /\ \E a \in SiterwellDPs : \E v \in SiterwellDPValues(a) :
          SiterwellReport(SiterwellDev, a, v)

\* the schedule datapoints of a Moes device
MoesScheduleDPs == {MoesScheduleDP(day) : day \in ScheduleDays}

\* The thermostat cache names the schedule attributes by triples and the other
\* attributes by strings; a run of Moes reports therefore carries either schedule
\* reports or the others. Neither listener reads what the other caches.
FreshMoes ==
    /\ FreshReport(MoesDev)
    /\ IF lastOp.op = "init" THEN TRUE ELSE lastOp.attr \notin MoesScheduleDPs
    /\ \/ \E a \in MoesScalarDPs : \E v \in MoesDPValues(a) : MoesReport(MoesDev, a, v)
       \/ \E v \in WindowReports : MoesReport(MoesDev, MOES_WINDOW_DETECT_ATTR, v)

FreshMoesSchedule ==
    /\ FreshReport(MoesDev)
    /\ IF lastOp.op = "init" THEN TRUE ELSE lastOp.attr \in MoesScheduleDPs
    /\ \E day \in ScheduleDays : \E P \in SchedulePayloads :
          MoesReport(MoesDev, MoesScheduleDP(day), P)

\* the report just handled arrives again, unchanged
Redeliver ==
    LET dev == lastOp.dev
        s == ManufCluster_update_attribute(dev, HandlerState(attr_cache[dev]),
                                           lastOp.attr, lastOp.value)
    IN  /\ lastOp.op = "report"
        /\ attr_cache' = [attr_cache EXCEPT ![dev] = s.cache]
        /\ Finish(s, [lastOp EXCEPT !.op = "redelivery"])
        /\ UNCHANGED <<nreports, globals>>

NextRedelivery ==
    \/ FreshSaswell
    \/ FreshZonnsmart
    \/ FreshSiterwell
    \/ FreshMoes
    \/ FreshMoesSchedule
    \/ Redeliver

SpecRedelivery == Init /\ [][NextRedelivery]_vars

\* C26: in every device family, delivering the same inbound report a second time in
\* succession leaves the cached values of every synthetic cluster as the first
\* delivery left them.
C26_RedeliveryKeepsCaches ==
    [][lastOp'.op = "redelivery" => attr_cache' = attr_cache]_vars

\* a Saswell target temperature delivered twice in heat mode with the room
\* temperature cached, so that the running state is derived both times
C26_Witness ==
    /\ lastOp.op = "redelivery"
    /\ lastOp.dev = SaswellDev
    /\ lastOp.attr = SASWELL_TARGET_TEMP_ATTR
    /\ Len(UpdatesOn({"thermostat"})) > 1

----------------------------------------------------------------------------
(* Reports to the Saswell and Zonnsmart devices of a fleet, between writes   *)
(* on the child lock helpers of one Saswell device and of the Zonnsmart      *)
(* device whose writes may travel through the other one                      *)

\* the least and the greatest element of a set of numbers
Extremes(S) == {x \in S : (\A y \in S : x <= y) \/ (\A y \in S : y <= x)}

SaswellFleetDPs == {SASWELL_ONOFF_ATTR, SASWELL_TARGET_TEMP_ATTR}

ZonnsmartFleetDPs == {ZONNSMART_MODE_ATTR, ZONNSMART_TARGET_TEMP_ATTR}

ReportFleetSaswell ==
    /\ nreports < MaxReports
    /\ nreports' = nreports + 1
    /\ UNCHANGED globals
    /\ \E d \in SaswellDevices : \E a \in SaswellFleetDPs :
          \E v \in Extremes(SaswellDPValues(a)) : SaswellReport(d, a, v)

ReportFleetZonnsmart ==
    /\ nreports < MaxReports
    /\ nreports' = nreports + 1
    /\ UNCHANGED globals
    /\ \E d \in ZonnsmartDevices : \E a \in ZonnsmartFleetDPs :
          \E v \in Extremes(ZonnsmartDPValues(a)) : ZonnsmartReport(d, a, v)

WriteFleetSaswellChildLock ==
    /\ SaswellHelperWrite(SaswellDev2, "child_lock", "on_off", 1)
    /\ UNCHANGED <<nreports, globals>>

WriteFleetZonnsmartChildLock ==
    /\ ZONNSMARTHelperOnOff_write_attributes(ZonnsmartDev, "child_lock",
                                             <<<<"on_off", 1>>>>, "SUCCESS")
    /\ UNCHANGED <<nreports, globals>>

NextFleetReports ==
    \/ ReportFleetSaswell
    \/ ReportFleetZonnsmart
    \/ WriteFleetSaswellChildLock
    \/ WriteFleetZonnsmartChildLock

SpecFleetReports == InitFleet /\ [][NextFleetReports]_vars

RECURSIVE ApplyUpdates(_, _)
ApplyUpdates(caches, upds) ==
    IF upds = <<>> THEN caches
    ELSE ApplyUpdates([caches EXCEPT ![upds[1][1]] = Put(@, upds[1][2], upds[1][3])],
                      Tail(upds))

----------------------------------------------------------------------------
(* The temperature transforms of every family: a reported raw value goes     *)
(* through the forward transform, the attribute value it yields is written   *)
(* back through the reverse transform.                                       *)

\* MoesManufClusterNew.DIRECT_MAPPED_ATTRS: the target temperature comes in 1/100
MoesNewDirectMapped ==
    [MoesDirectMapped EXCEPT ![MOES_TARGET_TEMP_ATTR] = <<"occupied_heating_setpoint", 100>>]

\* MoesThermostat.DIRECT_MAPPING_ATTRS: attribute -> <<datapoint, divisor>>, the
\* transform being round(value / divisor), or the value itself where the table holds
\* no transform (divisor 1)
MoesDirectMapping ==
    [a \in {"occupied_heating_setpoint", "unoccupied_heating_setpoint",
             "comfort_heating_setpoint", "eco_heating_setpoint",
             "min_heat_setpoint_limit", "max_heat_setpoint_limit",
             "local_temperature_calibration", "work_days", "operation_preset",
             "boost_duration_seconds", "valve_force_state",
             "unoccupied_duration_days"} |->
        IF a = "occupied_heating_setpoint" THEN <<MOES_TARGET_TEMP_ATTR, 10>>
        ELSE IF a = "unoccupied_heating_setpoint" THEN <<MOES_AWAY_TEMP_ATTR, 100>>
        ELSE IF a = "comfort_heating_setpoint" THEN <<MOES_COMFORT_TEMP_ATTR, 100>>
        ELSE IF a = "eco_heating_setpoint" THEN <<MOES_ECO_TEMP_ATTR, 100>>
        ELSE IF a = "min_heat_setpoint_limit" THEN <<MOES_MIN_TEMPERATURE_ATTR, 100>>
        ELSE IF a = "max_heat_setpoint_limit" THEN <<MOES_MAX_TEMPERATURE_ATTR, 100>>
        ELSE IF a = "local_temperature_calibration"
        THEN <<MOES_TEMP_CALIBRATION_ATTR, 10>>
        ELSE IF a = "work_days" THEN <<MOES_WEEK_FORMAT_ATTR, 1>>
        ELSE IF a = "operation_preset" THEN <<MOES_MODE_ATTR, 1>>
        ELSE IF a = "boost_duration_seconds" THEN <<MOES_BOOST_TIME_ATTR, 1>>
        ELSE IF a = "valve_force_state" THEN <<MOES_FORCE_VALVE_ATTR, 1>>
        ELSE <<MOES_AWAY_DAYS_ATTR, 1>>]

\* the table MoesThermostatNew would inherit if it did not define its own
MoesNewDirectMapping_inherited == MoesDirectMapping

\* MoesThermostatNew.DIRECT_MAPPING_ATTRS: the target temperature goes out in 1/100
MoesNewDirectMapping ==
    [MoesDirectMapping EXCEPT !["occupied_heating_setpoint"] =
                                  <<MOES_TARGET_TEMP_ATTR, 100>>]

\* MoesThermostat.map_attribute on a directly mapped attribute
MoesDirectMapping_apply(table, attribute, value) ==
    Dict1(table[attribute][1],
          IF table[attribute][2] = 1 THEN value ELSE PyRound(value, table[attribute][2]))

\* SiterwellThermostat.map_attribute, occupied_heating_setpoint
SiterwellThermostat_map_setpoint(value) ==
    Dict1(SITERWELL_TARGET_TEMP_ATTR, PyRound(value, 10))

\* ZONNSMARTThermostat.DIRECT_MAPPING_ATTRS through map_attribute
ZONNSMARTThermostat_map_setpoint(value) ==
    Dict1(ZONNSMART_TARGET_TEMP_ATTR, PyRound(value, 10))

\* the datapoints of TuyaThermostatV2 that carry a setpoint and a calibration
TuyaThermostatV2_SETPOINT_DP == 4
TuyaThermostatV2_CALIBRATION_DP == 47

\* tuya_dp(dp_id=4): converter x * 10, dp_converter x // 10
TuyaThermostatV2_setpoint_converter(x) == x * 10
TuyaThermostatV2_setpoint_dp_converter(x) == x \div 10

Families == {"Siterwell", "Moes", "MoesNew", "Zonnsmart", "Saswell", "TuyaThermostatV2"}

\* the datapoints of a family that have a forward and a reverse transform
TransformDPs(family) ==
    IF family = "Siterwell" THEN {SITERWELL_TARGET_TEMP_ATTR}
    ELSE IF family \in {"Moes", "MoesNew"}
    THEN {MoesDirectMapping[a][1] :
             a \in {b \in DOMAIN MoesDirectMapping : MoesDirectMapping[b][2] # 1}}
    ELSE IF family = "Zonnsmart" THEN {ZONNSMART_TARGET_TEMP_ATTR}
    ELSE IF family = "Saswell"
    THEN {SASWELL_TARGET_TEMP_ATTR, SASWELL_TEMP_CORRECTION_ATTR}
    ELSE {TuyaThermostatV2_SETPOINT_DP}

\* what a report of raw value v of the datapoint caches: <<attribute, value>>
Forward(family, dp, v) ==
    IF family = "Siterwell" THEN <<SiterwellTemperatureAttrs[dp], v * 10>>
    ELSE IF family = "Moes"
    THEN <<MoesDirectMapped[dp][1], v * MoesDirectMapped[dp][2]>>
    ELSE IF family = "MoesNew"
    THEN <<MoesNewDirectMapped[dp][1], v * MoesNewDirectMapped[dp][2]>>
    ELSE IF family = "Zonnsmart"
    THEN <<ZonnsmartDirectMapped[dp], ZonnsmartDirectValue(dp, v)>>
    ELSE IF family = "Saswell" THEN <<SaswellDirectMapped[dp], v * 10>>
    ELSE <<"occupied_heating_setpoint", TuyaThermostatV2_setpoint_converter(v)>>

\* what a write of the attribute sends: {datapoint: raw value}
Reverse(family, attribute, value) ==
    IF family = "Siterwell" THEN SiterwellThermostat_map_setpoint(value)
    ELSE IF family = "Moes" THEN MoesDirectMapping_apply(MoesDirectMapping, attribute, value)
    ELSE IF family = "MoesNew"
    THEN MoesDirectMapping_apply(MoesNewDirectMapping, attribute, value)
    ELSE IF family = "Zonnsmart" THEN ZONNSMARTThermostat_map_setpoint(value)
    ELSE IF family = "Saswell" THEN SaswellThermostat_map_attribute(attribute, value)[1]
    ELSE Dict1(TuyaThermostatV2_SETPOINT_DP, TuyaThermostatV2_setpoint_dp_converter(value))

\* raw values on the wire, negative ones included
WireValues == (-MaxTemp)..MaxTemp

\* a report of the datapoint: the forward transform yields the attribute value
ForwardReport(family, dp, v) ==
    /\ lastOp' = [op |-> "forward", dev |-> family, cluster |-> "thermostat",
                  attr |-> dp, value |-> v, new_attrs |-> None]
    /\ updates' = <<<<"thermostat", Forward(family, dp, v)[1], Forward(family, dp, v)[2]>>>>
    /\ result' = None
    /\ UNCHANGED <<attr_cache, raised, outbound, seq, transport, nreports, via, globals>>

\* the attribute value just reported is written back: the reverse transform yields
\* the datapoint value to send
ReverseWrite ==
    /\ lastOp.op = "forward"
    /\ lastOp' = [lastOp EXCEPT !.op = "reverse"]
    /\ result' = Some(Reverse(lastOp.dev, updates[1][2], updates[1][3]))
    /\ UNCHANGED <<attr_cache, updates, raised, outbound, seq, transport, nreports, via,
                   globals>>

ReportTransformed ==
    \E family \in Families : \E dp \in TransformDPs(family) : \E v \in WireValues :
        ForwardReport(family, dp, v)

NextTransforms == ReportTransformed \/ ReverseWrite

SpecTransforms == Init /\ [][NextTransforms]_vars

\* C29: for every temperature datapoint that has a forward and a reverse transform
\* (x10 with round(/10), x100 with round(/100), the TuyaThermostatV2 setpoint x10
\* with //10), in every family, MoesNew included, writing back the attribute value
\* a report of raw value v produced sends the datapoint with value v again.
C29_ReverseOfForward ==
    lastOp.op = "reverse" => result = Some(Dict1(lastOp.attr, lastOp.value))

\* the MoesNew target temperature, cached in 1/100 degree and written back
C29_Witness ==
    /\ lastOp.op = "reverse"
    /\ lastOp.dev = "MoesNew"
    /\ lastOp.attr = MOES_TARGET_TEMP_ATTR
    /\ lastOp.value = MaxTemp
    /\ updates = <<<<"thermostat", "occupied_heating_setpoint", 100 * MaxTemp>>>>
    /\ result = Some(Dict1(MOES_TARGET_TEMP_ATTR, MaxTemp))

----------------------------------------------------------------------------
(* The TuyaThermostatV2 calibration datapoint: a calibration is written      *)
(* through dp_converter, and the datapoint value comes back through         *)
(* converter. Python integers are unbounded; a value is kept as the pair     *)
(* <<hi, lo>> that stands for hi * Word + lo, with 0 <= lo < Word.           *)

Word == 65536
Int32Max == 2147483647
Int32Min == -Int32Max - 1

Wide(x) == <<x \div Word, x % Word>>

\* tuya_dp(dp_id=47) dp_converter: x + 0x100000000 if x < 0 else x
TuyaThermostatV2_calibration_dp_converter(x) ==
    IF x < 0 THEN <<(x \div Word) + Word, x % Word>> ELSE Wide(x)

\* tuya_dp(dp_id=47) converter: lambda x: x
TuyaThermostatV2_calibration_converter(w) == w

\* calibrations written: everyday ones and the ends of the signed 32-bit range
CalibrationsV2 == ((-MaxTemp)..MaxTemp) \cup {Int32Min, Int32Min + 1, Int32Max}

WriteCalibrationV2 ==
    /\ \E x \in CalibrationsV2 :
          lastOp' = [op |-> "dp_write", dev |-> "TuyaThermostatV2",
                     cluster |-> "thermostat", attr |-> "local_temperature_calibration",
                     value |-> x,
                     new_attrs |-> Some(Dict1(TuyaThermostatV2_CALIBRATION_DP,
                                         TuyaThermostatV2_calibration_dp_converter(x)))]
    /\ updates' = <<>>
    /\ UNCHANGED <<attr_cache, raised, outbound, seq, result, transport, nreports, via,
                   globals>>

\* the device reports the datapoint value it was sent
ReportCalibrationV2 ==
    /\ lastOp.op = "dp_write"
    /\ lastOp' = [lastOp EXCEPT !.op = "dp_report"]
    /\ updates' = <<<<"thermostat", "local_temperature_calibration",
                      TuyaThermostatV2_calibration_converter(
                          lastOp.new_attrs[1][TuyaThermostatV2_CALIBRATION_DP])>>>>
    /\ UNCHANGED <<attr_cache, raised, outbound, seq, result, transport, nreports, via,
                   globals>>

NextCalibrationV2 == WriteCalibrationV2 \/ ReportCalibrationV2

SpecCalibrationV2 == Init /\ [][NextCalibrationV2]_vars

\* C30: the TuyaThermostatV2 calibration (DP 47) round-trips exactly,
\* converter(dp_converter(x)) = x for every x of the signed 32-bit range: a negative
\* calibration written and reported back is seen as the same negative value.
C30_CalibrationRoundTrips ==
    lastOp.op = "dp_report" => updates[1][3] = Wide(lastOp.value)

----------------------------------------------------------------------------
(* The Siterwell thermostat: reports of every datapoint and writes of the    *)
(* system mode and of the programming mode                                   *)

\* map_attribute failing when the other half of the mode was never cached
SiterwellThermostat_map_attribute_no_default(cache, attribute, value) ==
    IF attribute = "occupied_heating_setpoint"
    THEN Some(SiterwellThermostat_map_setpoint(value))
    ELSE IF attribute \in {"system_mode", "programing_oper_mode"}
    THEN LET other == IF attribute = "system_mode"
                      THEN "programing_oper_mode" ELSE "system_mode"
             system_mode == IF attribute = "system_mode"
                            THEN value ELSE GetOr(cache, "system_mode", "Heat")
             oper_mode == IF attribute = "system_mode"
                          THEN GetOr(cache, "programing_oper_mode", "Simple")
                          ELSE value
         IN  IF other \notin DOMAIN cache THEN None
             ELSE IF system_mode = "Off" THEN Some(Dict1(SITERWELL_MODE_ATTR, 0))
             ELSE IF system_mode = "Heat" /\ oper_mode = "Schedule_programming_mode"
             THEN Some(Dict1(SITERWELL_MODE_ATTR, 1))
             ELSE IF system_mode = "Heat" /\ oper_mode = "Simple"
             THEN Some(Dict1(SITERWELL_MODE_ATTR, 2))
             ELSE None
    ELSE None

\* SiterwellThermostat.map_attribute; after self.error(...) and for any other
\* attribute the function falls off its end and returns None
SiterwellThermostat_map_attribute(cache, attribute, value) ==
    IF attribute = "occupied_heating_setpoint"
    THEN Some(SiterwellThermostat_map_setpoint(value))
    ELSE IF attribute \in {"system_mode", "programing_oper_mode"}
    THEN LET system_mode == IF attribute = "system_mode"
                            THEN value ELSE GetOr(cache, "system_mode", "Heat")
             oper_mode == IF attribute = "system_mode"
                          THEN GetOr(cache, "programing_oper_mode", "Simple")
                          ELSE value
         IN  IF system_mode = "Off" THEN Some(Dict1(SITERWELL_MODE_ATTR, 0))
             ELSE IF system_mode = "Heat" /\ oper_mode = "Schedule_programming_mode"
             THEN Some(Dict1(SITERWELL_MODE_ATTR, 1))
             ELSE IF system_mode = "Heat" /\ oper_mode = "Simple"
             THEN Some(Dict1(SITERWELL_MODE_ATTR, 2))
             ELSE None
    ELSE None

\* TuyaThermostatCluster.write_attributes on the Siterwell thermostat
SiterwellThermostatWrite(dev, attribute, value) ==
    WriteMapped(dev, "thermostat", attribute, value,
                SiterwellThermostat_map_attribute(attr_cache[dev]["thermostat"],
                                                  attribute, value))

\* the mode writes: the supported values and one unsupported value of each
SiterwellModeWrites ==
    ({"system_mode"} \X {"Off", "Heat", "Auto"})
        \cup ({"programing_oper_mode"} \X
                  {"Simple", "Schedule_programming_mode", "Economy_mode"})

ReportSiterwell ==
    /\ nreports < MaxReports
    /\ nreports' = nreports + 1
    /\ UNCHANGED globals
    /\ \E a \in SiterwellDPs : \E v \in SiterwellDPValues(a) :
          SiterwellReport(SiterwellDev, a, v)

WriteSiterwellMode ==
    /\ \E w \in SiterwellModeWrites : SiterwellThermostatWrite(SiterwellDev, w[1], w[2])
    /\ UNCHANGED <<nreports, globals>>

NextSiterwell == ReportSiterwell \/ WriteSiterwellMode

SpecSiterwell == Init /\ [][NextSiterwell]_vars

\* the Siterwell thermostat cache
WTh == attr_cache[SiterwellDev]["thermostat"]

\* the last operation was a write of the attribute on the Siterwell thermostat
SiterwellWrote(attribute) ==
    /\ lastOp.op = "write"
    /\ lastOp.dev = SiterwellDev
    /\ lastOp.cluster = "thermostat"
    /\ lastOp.attr = attribute

\* the last write sent the mode datapoint with the given value and succeeded
SentSiterwellMode(m) ==
    /\ lastOp.new_attrs = Some(Dict1(SITERWELL_MODE_ATTR, m))
    /\ result = Some(<<"SUCCESS">>)
    /\ Len(outbound) = 1

\* C31: the Siterwell reverse mapper composes the mode datapoint from the written
\* attribute and the latest cached value of the other one: system_mode = Off gives
\* 0; system_mode = Heat gives 1 when the cached programing_oper_mode is Schedule and
\* 2 when it is Simple or was never cached; programing_oper_mode is combined with the
\* cached system_mode, Heat when never cached; no such write fails for lack of the
\* other value.
C31_SiterwellModeComposition ==
    /\ SiterwellWrote("system_mode") =>
          /\ lastOp.value = "Off" => SentSiterwellMode(0)
          /\ lastOp.value = "Heat" =>
                SentSiterwellMode(
                    IF Get(WTh, "programing_oper_mode") = Some("Schedule_programming_mode")
                    THEN 1 ELSE 2)
    /\ (SiterwellWrote("programing_oper_mode")
           /\ lastOp.value \in {"Simple", "Schedule_programming_mode"}) =>
          SentSiterwellMode(
              IF Get(WTh, "system_mode") = Some("Off") THEN 0
              ELSE IF lastOp.value = "Schedule_programming_mode" THEN 1 ELSE 2)

\* programing_oper_mode written on a device that never reported its mode
C31_Witness ==
    /\ SiterwellWrote("programing_oper_mode")
    /\ lastOp.value = "Schedule_programming_mode"
    /\ "system_mode" \notin DOMAIN WTh
    /\ SentSiterwellMode(1)

\* C32: in every state a Saswell device reaches through reports in which system_mode
\* is Heat and both temperatures are cached, running_state is Heat_State_On exactly
\* when local_temperature < occupied_heating_setpoint + 2, also right after the
\* on/off datapoint has arrived.
C32_HeatStateFollowsComparison ==
    (InHeat /\ BothCached(Th)) =>
        (Get(Th, "running_state") = Some("Heat_State_On")
            <=> Th["local_temperature"] < Th["occupied_heating_setpoint"] + 2)

\* C33: in every state a Siterwell device reaches through reports, system_mode = Off
\* implies running_state = Idle: once mode 0 has been reported, only a mode report
\* other than off can set the running state to heating, a valve state report cannot.
C33_SiterwellOffImpliesIdle ==
    Get(WTh, "system_mode") = Some("Off") => Get(WTh, "running_state") = Some("Idle")

C35_ZonnsmartComparesWithoutOffset ==
    (ZonnsmartTempReported /\ BothCached(ZTh)) =>
        LET arrived == IF lastOp.attr = ZONNSMART_TEMPERATURE_ATTR
                       THEN "local_temperature" ELSE "occupied_heating_setpoint"
        IN  /\ ZTh[arrived] = lastOp.value * 10
            /\ IF ZTh["local_temperature"] >= ZTh["occupied_heating_setpoint"]
               THEN Running(ZTh, "Off", "Idle") /\ PublishedRunning("Off", "Idle")
               ELSE Running(ZTh, "Heat", "Heat_State_On")
                        /\ PublishedRunning("Heat", "Heat_State_On")

\* equal temperatures: Idle, where the Saswell comparator would heat
C35_Witness ==
    /\ ZonnsmartTempReported
    /\ BothCached(ZTh)
    /\ ZTh["local_temperature"] = ZTh["occupied_heating_setpoint"]
    /\ Running(ZTh, "Off", "Idle")
    /\ hass_state(ZTh["local_temperature"], ZTh["occupied_heating_setpoint"]) = 1

----------------------------------------------------------------------------
(* The Moes mode datapoint: reports and the writes composed from the cache   *)

\* map_attribute composing the mode from the written value alone
MoesThermostat_map_attribute_written_only(cache, attribute, value) ==
    IF attribute \in DOMAIN MoesDirectMapping
    THEN Some(MoesDirectMapping_apply(MoesDirectMapping, attribute, value))
    ELSE IF attribute \in {"programing_oper_mode", "occupancy"}
    THEN LET occupancy == IF attribute = "occupancy" THEN value ELSE "Occupied"
             oper_mode == IF attribute = "occupancy" THEN "Simple" ELSE value
         IN  IF occupancy = "Unoccupied" THEN Some(Dict1(MOES_MODE_ATTR, 0))
             ELSE IF occupancy = "Occupied" /\ oper_mode = "Schedule_programming_mode"
             THEN Some(Dict1(MOES_MODE_ATTR, 1))
             ELSE IF occupancy = "Occupied" /\ oper_mode = "Simple"
             THEN Some(Dict1(MOES_MODE_ATTR, 2))
             ELSE IF occupancy = "Occupied" /\ oper_mode = "Economy_mode"
             THEN Some(Dict1(MOES_MODE_ATTR, 4))
             ELSE None
    ELSE IF attribute = "system_mode"
    THEN Some(Dict1(MOES_MODE_ATTR, GetOr(cache, "operation_preset", 2)))
    ELSE None

\* MoesThermostat.map_attribute for every attribute but the schedule fields; after
\* self.error(...) no later branch matches and the function returns None
MoesThermostat_map_attribute(cache, attribute, value) ==
    IF attribute \in DOMAIN MoesDirectMapping
    THEN Some(MoesDirectMapping_apply(MoesDirectMapping, attribute, value))
    ELSE IF attribute \in {"programing_oper_mode", "occupancy"}
    THEN LET occupancy == IF attribute = "occupancy"
                          THEN value ELSE GetOr(cache, "occupancy", "Occupied")
             oper_mode == IF attribute = "occupancy"
                          THEN GetOr(cache, "programing_oper_mode", "Simple")
                          ELSE value
         IN  IF occupancy = "Unoccupied" THEN Some(Dict1(MOES_MODE_ATTR, 0))
             ELSE IF occupancy = "Occupied" /\ oper_mode = "Schedule_programming_mode"
             THEN Some(Dict1(MOES_MODE_ATTR, 1))
             ELSE IF occupancy = "Occupied" /\ oper_mode = "Simple"
             THEN Some(Dict1(MOES_MODE_ATTR, 2))
             ELSE IF occupancy = "Occupied" /\ oper_mode = "Economy_mode"
             THEN Some(Dict1(MOES_MODE_ATTR, 4))
             ELSE None
    ELSE IF attribute = "system_mode"
    THEN Some(Dict1(MOES_MODE_ATTR, GetOr(cache, "operation_preset", 2)))
    ELSE None

\* TuyaThermostatCluster.write_attributes on the Moes thermostat
MoesThermostatWrite(dev, attribute, value) ==
    WriteMapped(dev, "thermostat", attribute, value,
                MoesThermostat_map_attribute(attr_cache[dev]["thermostat"],
                                             attribute, value))

\* the mode values a Moes device reports: the six documented ones and one more
MoesModeValues == 0..6

\* the mode writes: every value of the two enumerations
MoesModeWrites ==
    ({"programing_oper_mode"} \X {"Simple", "Schedule_programming_mode", "Economy_mode"})
        \cup ({"occupancy"} \X {"Unoccupied", "Occupied"})

ReportMoesMode ==
    /\ nreports < MaxReports
    /\ nreports' = nreports + 1
    /\ UNCHANGED globals
    /\ \E m \in MoesModeValues : MoesReport(MoesDev, MOES_MODE_ATTR, m)

WriteMoesMode ==
    /\ \E w \in MoesModeWrites : MoesThermostatWrite(MoesDev, w[1], w[2])
    /\ UNCHANGED <<nreports, globals>>

NextMoesMode == ReportMoesMode \/ WriteMoesMode

SpecMoesMode == Init /\ [][NextMoesMode]_vars

\* the last operation was a write of the attribute on the Moes thermostat
MoesWrote(attribute) ==
    /\ lastOp.op = "write"
    /\ lastOp.dev = MoesDev
    /\ lastOp.cluster = "thermostat"
    /\ lastOp.attr = attribute

\* the last write sent the mode datapoint with the given value and succeeded
SentMoesMode(m) ==
    /\ lastOp.new_attrs = Some(Dict1(MOES_MODE_ATTR, m))
    /\ result = Some(<<"SUCCESS">>)
    /\ Len(outbound) = 1

\* C36: once a Moes device has reported mode m, writing programing_oper_mode or
\* occupancy with the value the cache holds for it sends the mode datapoint with m
\* when m is 0, 1, 2 or 4 and with 2 when m is 3, 5 or 6.
C36_MoesModeWriteReturnsReportedMode ==
    \A a \in {"programing_oper_mode", "occupancy"} :
        (MoesWrote(a) /\ MOES_MODE_ATTR \in DOMAIN MManuf /\ lastOp.value = MTh[a])
            => SentMoesMode(IF MManuf[MOES_MODE_ATTR] \in {0, 1, 2, 4}
                            THEN MManuf[MOES_MODE_ATTR] ELSE 2)

\* mode 0 was reported and the cached Simple is written back: the datapoint is 0
C36_Witness ==
    /\ MoesWrote("programing_oper_mode")
    /\ Get(MManuf, MOES_MODE_ATTR) = Some(0)
    /\ lastOp.value = "Simple"
    /\ Get(MTh, "programing_oper_mode") = Some("Simple")
    /\ SentMoesMode(0)

\* the value of the last record of the write that names the attribute
LastWritten(records, attribute) ==
    LET i == CHOOSE k \in 1..Len(records) :
                 /\ records[k][1] = attribute
                 /\ \A j \in (k + 1)..Len(records) : records[j][1] # attribute
    IN  records[i][2]

\* C37: a write of window_detection_temperature = v on the Moes window detection
\* cluster places round(v / 100), a whole number, in the temperature position of
\* the window detection payload, for every v including those that are not a
\* multiple of 100.
C37_WindowTemperatureRounded ==
    (/\ RecordWrite(lastOp)
     /\ lastOp.dev = MoesDev
     /\ \E i \in 1..Len(lastOp.attr) : lastOp.attr[i][1] = "window_detection_temperature")
        => lastOp.new_attrs[1][MOES_WINDOW_DETECT_ATTR][2] =
               Hundredths(100 * PyRound(LastWritten(lastOp.attr,
                                                    "window_detection_temperature"), 100))

----------------------------------------------------------------------------
(* Off, on and toggle on the on/off helper clusters of the three families    *)

\* the helpers commanded in these runs, one device of each family
ToggledHelpers ==
    {<<SaswellDev, "child_lock">>, <<SaswellDev, "window_detection">>,
     <<ZonnsmartDev, "child_lock">>, <<MoesDev, "window_detection">>}

\* window detection reports with the feature off and on
ToggleWindowReports == {<<15, MaxTemp, 0>>, <<15, MaxTemp, 1>>}

ReportToggledDP ==
    /\ \/ \E a \in {SASWELL_CHILD_LOCK_ATTR, SASWELL_WINDOW_DETECT_ATTR} :
             \E v \in {0, 1} : SaswellReport(SaswellDev, a, v)
       \/ \E v \in {0, 1} : ZonnsmartReport(ZonnsmartDev, ZONNSMART_CHILD_LOCK_ATTR, v)
       \/ \E v \in ToggleWindowReports : MoesReport(MoesDev, MOES_WINDOW_DETECT_ATTR, v)
    /\ UNCHANGED <<nreports, globals>>

CommandToggledHelper ==
    /\ \E c \in {0, 1, 2} : \E st \in TransportStatuses :
          \/ \E h \in {"child_lock", "window_detection"} :
                SaswellHelperCommand(SaswellDev, h, c, st)
          \/ ZONNSMARTHelperOnOff_command(ZonnsmartDev, "child_lock", c, st)
          \/ MoesWindowDetection_command(MoesDev, c, st)
    /\ UNCHANGED <<nreports, globals>>

NextToggles == ReportToggledDP \/ CommandToggledHelper

SpecToggles == Init /\ [][NextToggles]_vars

\* op is a toggle (0x02) on one of the commanded helpers
Toggle(op) ==
    /\ op.op = "command"
    /\ <<op.dev, op.cluster>> \in ToggledHelpers
    /\ op.attr = 2

\* C38: toggle (0x02) on an on/off helper cluster of the Moes, Zonnsmart and Saswell
\* families requests the negation of the cached on_off in one outbound write and
\* leaves every cache as it was, so a second toggle with no report in between
\* requests the same value; when on_off was never reported, toggle sends nothing,
\* consumes no sequence number and answers FAILURE.
C38_ToggleNegatesCachedValue ==
    [][Toggle(lastOp') =>
          LET cache == attr_cache[lastOp'.dev][lastOp'.cluster]
          IN  /\ attr_cache' = attr_cache
              /\ IF "on_off" \in DOMAIN cache
                 THEN /\ lastOp'.value = (IF cache["on_off"] = 0 THEN 1 ELSE 0)
                      /\ lastOp'.new_attrs # None
                      /\ Len(outbound') = 1
                      /\ (Toggle(lastOp) /\ lastOp.dev = lastOp'.dev
                              /\ lastOp.cluster = lastOp'.cluster)
                             => lastOp'.value = lastOp.value
                 ELSE /\ outbound' = <<>>
                      /\ seq' = seq
                      /\ result' \in {Some(<<kind, "FAILURE">>) :
                                          kind \in {"Default_Response", "bare"}}]_vars

\* window detection was reported on; the toggle asks for off and the cache stays on
C38_Witness ==
    /\ Toggle(lastOp)
    /\ lastOp.dev = MoesDev
    /\ Get(attr_cache[MoesDev]["window_detection"], "on_off") = Some(1)
    /\ lastOp.value = 0
    /\ Len(outbound) = 1

\* op is a Zonnsmart report of the datapoint with one of the values
ZonnsmartReportOf(op, attrid, values) ==
    /\ op.op = "report"
    /\ op.dev = ZonnsmartDev
    /\ op.attr = attrid
    /\ op.value \in values

\* C39: a Zonnsmart frost protection report of 1 sets operation_preset to FrostProtect
\* and publishes nothing else on the thermostat; a frost protection report of 0, and
\* a mode report with a value above 3, publishes no thermostat update at all and
\* leaves the thermostat cache, operation_preset included, as it was.
C39_FrostProtectionOnlySets ==
    [][/\ ZonnsmartReportOf(lastOp', ZONNSMART_FROST_PROTECT_ATTR, {1}) =>
              /\ ThermostatUpdates' = <<<<"thermostat", "operation_preset", "FrostProtect">>>>
              /\ Get(ZTh', "operation_preset") = Some("FrostProtect")
       /\ (\/ ZonnsmartReportOf(lastOp', ZONNSMART_FROST_PROTECT_ATTR, {0})
           \/ ZonnsmartReportOf(lastOp', ZONNSMART_MODE_ATTR, {4})) =>
              /\ ThermostatUpdates' = <<>>
              /\ ZTh' = ZTh]_vars

\* frost protection reported off while the preset still reads FrostProtect
C39_Witness ==
    /\ ZonnsmartReportOf(lastOp, ZONNSMART_FROST_PROTECT_ATTR, {0})
    /\ Get(ZTh, "operation_preset") = Some("FrostProtect")
    /\ ThermostatUpdates = <<>>

====
